---- MODULE Spec2Model ----
(***************************************************************************)
(* A model of RustyBoot's storage-and-loading pipeline: the physical       *)
(* memory manager (src/memory/manager.rs), the partition table reader      *)
(* (src/boot/mbr.rs) and the ATA PIO block driver (src/drivers/disk.rs).   *)
(*                                                                         *)
(* The target is 32-bit x86 (loader.rs loads esp), so usize and u32 are    *)
(* 32 bits wide.  TLC's integers stop at 2^31 - 1, so a 32-bit word is     *)
(* kept as a pair <<hi, lo>> of 16-bit halves and the arithmetic below     *)
(* works on the halves with an explicit carry.                             *)
(***************************************************************************)
EXTENDS Integers, Sequences, FiniteSets, TLC

VARIABLES
    \* ---- build ----
    overflow_checks,  \* TRUE: `+` and `*` trap on overflow (debug profile);
                      \* FALSE: they wrap modulo 2^32 (release profile)
    crashed,          \* the process aborted (panic, or a wild memset)
    \* ---- MemoryManager (src/memory/manager.rs:30-37) ----
    regions,          \* regions[..region_count], as a sequence
    heap_start,
    heap_current,
    heap_end,
    allocated_bytes,
    \* ---- observation of the manager's calls ----
    mm_ret,           \* the last call: its arguments, result and pre-state
    hist,             \* successful allocations, reservations and resets, in order
    ops,              \* number of calls made so far
    \* ---- partition table reader (src/boot/mbr.rs) ----
    mbr,              \* the 512 bytes of LBA 0, mbr[o + 1] for offset o
    mbr_pc,           \* "idle", "read" (sector read), "probed"
    info,             \* MbrInfo: signature_valid, partitions
    active,           \* what find_active_partition returned
    first_present,    \* what first_present_partition returned
    \* ---- ATA PIO driver, read_sectors (src/drivers/disk.rs) ----
    rs_pc,            \* where read_sectors stands: "idle", "sel", "cnt",
                      \* "lba0", "lba1", "lba2", "cmd", "alt", "bsy", "drq",
                      \* "data", "ok", "err", "panic"
    rs_arg,           \* the call's arguments [lba, count, buflen]
    rs_lba,           \* the local lba
    rs_count,         \* the local count
    rs_off,           \* the local off
    rs_chunk,         \* the local chunk
    rs_i,             \* sectors of the chunk read so far
    buffer,           \* the caller's buffer, one entry per 512 bytes
    regs,             \* the task-file registers as last written
    dev_cur,          \* device: LBA of the sector its data port delivers
    commands,         \* READ commands the device received: [lba, n]
    words_read,       \* data words read from the data port
    err_seen,         \* a status-register read showed ERR or DF
    rs_seen,          \* port accesses of the current chunk and sector: the
                      \* registers written since the last command; whether
                      \* a status read showed busy clear; the last status
                      \* byte read, and whether it came after that read
    \* ---- EXT reader (src/fs/ext.rs) ----
    image,            \* what the disk holds: partition start, superblock, blocks
    fs,               \* SUPERBLOCK, BLOCK_SIZE, SECTORS_PER_BLOCK,
                      \* PARTITION_LBA_BASE
    fs_ret,           \* the last call of the reader: arguments and result
    fs_reads,         \* read_sectors calls of the current call: [lba, count]
    rf_pc,            \* where read_file stands in read_inode_data: "idle",
                      \* "direct", "single", "single_loop", "double",
                      \* "double_outer", "double_inner", "end"
    rf,               \* read_inode_data's inode and locals
    rf_buf,           \* the FileBuffer: the pieces copied and size
    \* ---- global memory manager and kernel loader ----
    manager_some,     \* MEMORY_MANAGER holds a manager
    ldr_ret,          \* the last call of memory::* or the loader: result
    lk_pc,            \* where load_kernel_from_path stands: "idle", "find",
                      \* "load", "reserve"
    lk,               \* its locals: the file read, the load address, the entry
    writes,           \* memcpy and memset calls of the current load, in order
    \* ---- stage 2 (src/boot/stage2.rs) ----
    boot              \* where start() stands, the kernel path it tries next,
                      \* the calls it has made with their results, its message

mem_vars == <<overflow_checks, crashed, regions, heap_start, heap_current,
              heap_end, allocated_bytes, mm_ret, hist, ops>>

mbr_vars == <<mbr, mbr_pc, info, active, first_present>>

disk_vars == <<rs_pc, rs_arg, rs_lba, rs_count, rs_off, rs_chunk, rs_i, buffer,
               regs, dev_cur, commands, words_read, err_seen, rs_seen>>

ext_vars == <<image, fs, fs_ret, fs_reads, rf_pc, rf, rf_buf>>

ldr_vars == <<manager_some, ldr_ret, lk_pc, lk, writes, boot>>

vars == <<mem_vars, mbr_vars, disk_vars, ext_vars, ldr_vars>>

----------------------------------------------------------------------------
(* 32-bit words as <<hi, lo>>                                               *)

Half == 256 * 256

\* The word of a natural number below 2^31.
W(n) == <<n \div Half, n % Half>>

\* a + b modulo 2^32 (usize::wrapping_add; `+` without overflow checks).
AddWrap(a, b) ==
    LET lo == a[2] + b[2]
        hi == a[1] + b[1] + (lo \div Half)
    IN  <<hi % Half, lo % Half>>

\* a + b does not fit in 32 bits (`+` traps under overflow checks).
AddOverflows(a, b) == a[1] + b[1] + ((a[2] + b[2]) \div Half) >= Half

\* a * c modulo 2^32, for a small constant c (c <= 32767).
MulWrap(a, c) ==
    LET lo == a[2] * c
        hi == a[1] * c + (lo \div Half)
    IN  <<hi % Half, lo % Half>>

MulOverflows(a, c) == a[1] * c + ((a[2] * c) \div Half) >= Half

\* a - b modulo 2^32.
SubWrap(a, b) ==
    LET lo == Half + a[2] - b[2]
        hi == Half + a[1] - b[1] - (IF a[2] < b[2] THEN 1 ELSE 0)
    IN  <<hi % Half, lo % Half>>

Lt(a, b) == a[1] < b[1] \/ (a[1] = b[1] /\ a[2] < b[2])
Le(a, b) == ~Lt(b, a)

\* usize::is_power_of_two
IsPow2Half(n) == n \in {1, 2, 4, 8, 16, 32, 64, 128, 256, 512, 1024, 2048,
                        4096, 8192, 16384, 32768}
is_power_of_two(a) ==
    \/ a[1] = 0 /\ IsPow2Half(a[2])
    \/ a[2] = 0 /\ IsPow2Half(a[1])

\* a & !(p - 1) for a power of two p: clear the bits below p.
ClearLow(a, p) ==
    IF p[1] = 0 THEN <<a[1], a[2] - (a[2] % p[2])>>
                ELSE <<a[1] - (a[1] % p[1]), 0>>

----------------------------------------------------------------------------
(* Memory manager: constants and construction                               *)

MEMORY_START == W(1048576)      \* 0x100000
MEMORY_END == W(8388608)        \* 0x800000
PAGE_SIZE == 4096
MAX_REGIONS == 32
KERNEL_LOAD_ADDR == W(2097152)  \* 0x200000

Region(start, size, type) == [start |-> start, size |-> size, region_type |-> type]

\* add_region: append while the catalogue has a free slot, else drop silently.
add_region(rs, region) ==
    IF Len(rs) < MAX_REGIONS THEN Append(rs, region) ELSE rs

\* detect_memory: the static two-entry memory map.
detect_memory ==
    add_region(
        add_region(<<>>, Region(MEMORY_START, SubWrap(MEMORY_END, MEMORY_START), "Available")),
        Region(W(31744), W(623616), "Bootloader"))   \* 0x7C00, 0x98400

NoCall == [op |-> "none", a |-> W(0), b |-> W(0), res |-> "none", val |-> W(0),
           pre_hc |-> W(0), pre_he |-> W(0), pre_ab |-> W(0), pre_regions |-> <<>>]

Call(op, a, b, res, val) ==
    [op |-> op, a |-> a, b |-> b, res |-> res, val |-> val,
     pre_hc |-> heap_current, pre_he |-> heap_end, pre_ab |-> allocated_bytes,
     pre_regions |-> regions]

----------------------------------------------------------------------------
(* Memory manager: what each method computes.  An outcome is a record      *)
(* [kind, val, hc, he, ab, rs, wild]: the result, the fields after the     *)
(* call, and whether its memset ran past the end of the address space.     *)
(* kind "panic" is an arithmetic trap of a build with overflow checks.     *)

Outcome(kind, val, hc, he, ab, rs, wild) ==
    [kind |-> kind, val |-> val, hc |-> hc, he |-> he, ab |-> ab, rs |-> rs,
     wild |-> wild]

Unchanged(kind, val) ==
    Outcome(kind, val, heap_current, heap_end, allocated_bytes, regions, FALSE)

Panic == Unchanged("panic", W(0))

\* memset(ptr, 0, n) walks ptr.add(i) for i < n: past 2^32 when ptr + n wraps.
MemsetWild(ptr, n) == AddOverflows(ptr, n) /\ AddWrap(ptr, n) # W(0)

\* MemoryManager::allocate
allocate_outcome(size) ==
    IF size = W(0) THEN Unchanged("None", W(0))
    ELSE IF overflow_checks /\ AddOverflows(size, W(7)) THEN Panic
    ELSE
      LET aligned_size == ClearLow(AddWrap(size, W(7)), W(8)) IN
      IF overflow_checks /\ AddOverflows(heap_current, aligned_size) THEN Panic
      ELSE IF Lt(heap_end, AddWrap(heap_current, aligned_size))
      THEN Unchanged("None", W(0))
      ELSE IF overflow_checks /\ AddOverflows(allocated_bytes, aligned_size)
      THEN Panic
      ELSE Outcome("Some", heap_current,
                   AddWrap(heap_current, aligned_size), heap_end,
                   AddWrap(allocated_bytes, aligned_size), regions,
                   MemsetWild(heap_current, aligned_size))

\* MemoryManager::allocate_aligned
allocate_aligned_outcome(size, alignment) ==
    IF size = W(0) \/ alignment = W(0) \/ ~is_power_of_two(alignment)
    THEN Unchanged("None", W(0))
    ELSE IF overflow_checks /\ AddOverflows(heap_current, alignment) THEN Panic
    ELSE
      LET aligned_current ==
              ClearLow(SubWrap(AddWrap(heap_current, alignment), W(1)), alignment)
      IN
      IF overflow_checks /\ AddOverflows(aligned_current, size) THEN Panic
      ELSE IF Lt(heap_end, AddWrap(aligned_current, size))
      THEN Unchanged("None", W(0))
      ELSE IF overflow_checks /\ AddOverflows(allocated_bytes, size) THEN Panic
      ELSE Outcome("Some", aligned_current,
                   AddWrap(aligned_current, size), heap_end,
                   AddWrap(allocated_bytes, size), regions,
                   MemsetWild(aligned_current, size))

\* MemoryManager::allocate_pages
allocate_pages_outcome(page_count) ==
    IF overflow_checks /\ MulOverflows(page_count, PAGE_SIZE) THEN Panic
    ELSE allocate_aligned_outcome(MulWrap(page_count, PAGE_SIZE), W(PAGE_SIZE))

\* MemoryManager::reserve_region
reserve_region_outcome(start, size) ==
    IF Lt(start, heap_current) /\ overflow_checks /\ AddOverflows(start, size)
    THEN Panic
    ELSE IF Lt(start, heap_current) /\ Lt(heap_start, AddWrap(start, size))
    THEN Unchanged("Err", W(0))
    ELSE Outcome("Ok", W(0), heap_current,
                 IF Le(heap_current, start) /\ Lt(start, heap_end)
                 THEN start ELSE heap_end,
                 allocated_bytes,
                 add_region(regions, Region(start, size, "Reserved")),
                 FALSE)

\* The scan of find_kernel_location: the first Available region from index i
\* on whose size is at least aligned_size.
RECURSIVE scan_regions(_, _, _)
scan_regions(rs, i, aligned_size) ==
    IF i > Len(rs) THEN Unchanged("None", W(0))
    ELSE IF rs[i].region_type = "Available" /\ Le(aligned_size, rs[i].size)
    THEN Unchanged("Some", rs[i].start)
    ELSE scan_regions(rs, i + 1, aligned_size)

\* MemoryManager::find_kernel_location
find_kernel_location_outcome(kernel_size) ==
    IF overflow_checks /\ AddOverflows(KERNEL_LOAD_ADDR, kernel_size) THEN Panic
    ELSE IF Lt(AddWrap(KERNEL_LOAD_ADDR, kernel_size), heap_end)
    THEN Unchanged("Some", KERNEL_LOAD_ADDR)
    ELSE IF overflow_checks /\ AddOverflows(kernel_size, W(PAGE_SIZE)) THEN Panic
    ELSE
      LET aligned_size ==
              ClearLow(SubWrap(AddWrap(kernel_size, W(PAGE_SIZE)), W(1)),
                       W(PAGE_SIZE))
      IN  scan_regions(regions, 1, aligned_size)

\* MemoryManager::mark_kernel_loaded
mark_kernel_loaded_outcome(start, size) ==
    Outcome("unit", W(0), heap_current, heap_end, allocated_bytes,
            add_region(regions, Region(start, size, "Kernel")), FALSE)

\* MemoryManager::deallocate: a placeholder that does nothing.
deallocate_outcome(ptr, size) == Unchanged("unit", W(0))

\* MemoryManager::reset
reset_outcome ==
    Outcome("unit", W(0), heap_start, heap_end, W(0), regions, FALSE)

----------------------------------------------------------------------------
(* ATA PIO driver (src/drivers/disk.rs): read_sectors                       *)

ATA_SR_ERR == 1
ATA_SR_DRQ == 8
ATA_SR_DF == 32
ATA_SR_BSY == 128
SECTOR_BYTES == 512
SECTOR_WORDS == 256
MAX_CHUNK == 255

\* (s & mask) != 0 for a one-bit mask.
BitSet(s, mask) == (s \div mask) % 2 = 1

\* Bytes of each sector the model keeps (the first SampleWords words).
SampleWords == 2

\* Byte j of the disk's sector at `lba`.
DiskByte(lba, j) == (lba[2] * 5 + lba[1] + j * 37 + 11) % 256

\* Word k of that sector on the 16-bit data port: low byte first.
DataWord(lba, k) == DiskByte(lba, 2 * k) + 256 * DiskByte(lba, 2 * k + 1)

\* min(count, 255) as u8
chunk_of(count) == IF count < MAX_CHUNK THEN count ELSE MAX_CHUNK

\* lba.wrapping_add(chunk as u32)
advance_lba(lba, chunk) == AddWrap(lba, W(chunk))

\* buffer[off] = (w & 0xFF) as u8; buffer[off + 1] = (w >> 8) as u8
store_word(w) == <<w % 256, w \div 256>>

\* The body of poll_status's loop for one status value: "err", "ok", "again".
poll_status(s, mask_set, mask_clear) ==
    IF BitSet(s, ATA_SR_ERR) THEN "err"
    ELSE IF BitSet(s, ATA_SR_DF) THEN "err"
    ELSE IF BitSet(s, mask_set) /\ ~BitSet(s, mask_clear) THEN "ok"
    ELSE "again"

\* A polling loop that gives up on the first busy status.
wait_bsy_give_up(s) == IF ~BitSet(s, ATA_SR_BSY) THEN "ok" ELSE "err"

\* The body of wait_bsy_clear's polling loop for one status value.
wait_bsy_clear(s) ==
    IF ~BitSet(s, ATA_SR_BSY) THEN "ok"
    ELSE IF BitSet(s, ATA_SR_ERR) THEN "err"
    ELSE IF BitSet(s, ATA_SR_DF) THEN "err"
    ELSE "again"

\* A wait for the ready bit (0x40) in place of the data-request bit.
wait_drq_unchecked(s) == poll_status(s, 64, ATA_SR_BSY)

\* wait_drq_set
wait_drq_set(s) == poll_status(s, ATA_SR_DRQ, ATA_SR_BSY)

\* The 256-word loop, for k in 0..256, stores word k at bytes 2k and 2k + 1
\* of the sector's place; the model keeps the first SampleWords words' bytes.
read_words(lba) ==
    [j \in 1..(2 * SampleWords) |->
        store_word(DataWord(lba, (j - 1) \div 2))[((j - 1) % 2) + 1]]

Unwritten == [lba |-> <<0, 0>>, head |-> <<>>, written |-> FALSE]
Stored(lba, head) == [lba |-> lba, head |-> head, written |-> TRUE]

NoArg == [lba |-> W(0), count |-> 0, buflen |-> 0]
NoRegs == [sel |-> 0, cnt |-> 0, lba0 |-> 0, lba1 |-> 0, lba2 |-> 0]

NoSeen == [written |-> {}, clear |-> FALSE, later |-> FALSE, last |-> <<>>]

\* The driver is not in use.
DiskIdle ==
    /\ rs_pc = "idle"
    /\ rs_arg = NoArg
    /\ rs_lba = W(0)
    /\ rs_count = 0
    /\ rs_off = 0
    /\ rs_chunk = 0
    /\ rs_i = 0
    /\ buffer = <<>>
    /\ regs = NoRegs
    /\ dev_cur = W(0)
    /\ commands = <<>>
    /\ words_read = 0
    /\ err_seen = FALSE
    /\ rs_seen = NoSeen

\* Status bytes the device may show on a read of the status register:
\* idle (DRDY), busy, data request, busy with data request, error, device
\* fault, error with data request, busy with error, busy with fault.
StatusValues == {80, 128, 88, 136, 81, 112, 89, 129, 160}

\* Calls: start LBAs (0; one whose low bytes carry; 2^28 - 256; 2^28; the
\* last 256 sectors of the 32-bit range) and sector counts around the
\* 255-sector limit of one command.
TwoTo28 == <<4096, 0>>
ReadLbas == {W(0), <<1, 65535>>, <<4095, 65280>>, TwoTo28, <<65535, 65280>>}
ReadCounts == {0, 1, 255, 256, 257}
BufferSlack == {0 - 1, 0, SECTOR_BYTES}

\* read_sectors, up to the loop.
read_sectors(lba, count, buflen) ==
    /\ rs_pc = "idle"
    /\ rs_arg' = [lba |-> lba, count |-> count, buflen |-> buflen]
    /\ rs_lba' = lba
    /\ rs_count' = count
    /\ rs_off' = 0
    /\ buffer' = [k \in 1..(buflen \div SECTOR_BYTES) |-> Unwritten]
    /\ rs_pc' = IF count = 0 THEN "ok"
                ELSE IF buflen < count * SECTOR_BYTES THEN "err"
                ELSE "sel"
    /\ rs_seen' = NoSeen
    /\ UNCHANGED <<rs_chunk, rs_i, regs, dev_cur, commands, words_read,
                   err_seen, mem_vars, mbr_vars, ext_vars, ldr_vars>>

\* outb(ATA_REG_HDDEVSEL, 0xE0 | ((lba >> 24) as u8 & 0x0F))
select_drive ==
    /\ rs_pc = "sel"
    /\ rs_chunk' = chunk_of(rs_count)
    /\ regs' = [regs EXCEPT !.sel = 224 + ((rs_lba[1] \div 256) % 16)]
    /\ rs_seen' = [rs_seen EXCEPT !.written = @ \cup {"sel"}]
    /\ rs_pc' = "cnt"
    /\ UNCHANGED <<rs_arg, rs_lba, rs_count, rs_off, rs_i, buffer, dev_cur,
                   commands, words_read, err_seen, mem_vars, mbr_vars, ext_vars, ldr_vars>>

\* outb(ATA_REG_SECCOUNT0, chunk), outb(ATA_REG_LBA0..2, ...): one register.
write_reg(at, next, field, val) ==
    /\ rs_pc = at
    /\ regs' = [regs EXCEPT ![field] = val]
    /\ rs_seen' = [rs_seen EXCEPT !.written = @ \cup {field}]
    /\ rs_pc' = next
    /\ UNCHANGED <<rs_arg, rs_lba, rs_count, rs_off, rs_chunk, rs_i, buffer,
                   dev_cur, commands, words_read, err_seen, mem_vars, mbr_vars, ext_vars, ldr_vars>>

write_seccount == write_reg("cnt", "lba0", "cnt", rs_chunk)
write_lba0 == write_reg("lba0", "lba1", "lba0", rs_lba[2] % 256)
write_lba1 == write_reg("lba1", "lba2", "lba1", rs_lba[2] \div 256)
write_lba2 == write_reg("lba2", "cmd", "lba2", rs_lba[1] % 256)

\* The 28-bit LBA the device takes from the registers.
RegLba(r) == <<(r.sel % 16) * 256 + r.lba2, r.lba1 * 256 + r.lba0>>

\* outb(ATA_REG_COMMAND, ATA_CMD_READ_SECTORS): the device takes the LBA and
\* the sector count from its registers.
issue_read ==
    /\ rs_pc = "cmd"
    /\ commands' = Append(commands, [lba |-> RegLba(regs), n |-> regs.cnt])
    /\ dev_cur' = RegLba(regs)
    /\ rs_i' = 0
    /\ rs_seen' = NoSeen
    /\ rs_pc' = "alt"
    /\ UNCHANGED <<rs_arg, rs_lba, rs_count, rs_off, rs_chunk, buffer, regs,
                   words_read, err_seen, mem_vars, mbr_vars, ext_vars, ldr_vars>>

\* wait_bsy_clear: the four dummy reads of the alternate status register.
dummy_reads ==
    /\ rs_pc = "alt"
    /\ rs_pc' = "bsy"
    /\ rs_seen' = NoSeen
    /\ UNCHANGED <<rs_arg, rs_lba, rs_count, rs_off, rs_chunk, rs_i, buffer,
                   regs, dev_cur, commands, words_read, err_seen, mem_vars,
                   mbr_vars, ext_vars, ldr_vars>>

\* The status byte shows the error bit or the device-fault bit.
HasError(s) == BitSet(s, ATA_SR_ERR) \/ BitSet(s, ATA_SR_DF)

\* One inb(ATA_REG_STATUS) that returned s, and the helper's answer to it.
status_read(at, next, s, answer) ==
    /\ rs_pc = at
    /\ err_seen' = (err_seen \/ HasError(s))
    /\ rs_seen' = [rs_seen EXCEPT !.clear = @ \/ ~BitSet(s, ATA_SR_BSY),
                                  !.later = rs_seen.clear,
                                  !.last = <<s>>]
    /\ rs_pc' = CASE answer = "ok" -> next
                  [] answer = "err" -> "err"
                  [] OTHER -> at
    /\ UNCHANGED <<rs_arg, rs_lba, rs_count, rs_off, rs_chunk, rs_i, buffer,
                   regs, dev_cur, commands, words_read, mem_vars, mbr_vars, ext_vars, ldr_vars>>

\* wait_bsy_clear: one turn of its polling loop.
poll_bsy ==
    \E s \in StatusValues :
        status_read("bsy", "drq", s, wait_bsy_clear(s))

\* wait_drq_set: one turn of poll_status's loop.
poll_drq ==
    \E s \in StatusValues :
        status_read("drq", "data", s, wait_drq_set(s))

\* The 256 inw(ATA_REG_DATA) of one sector, then the end of the sector loop
\* and, after the chunk's last sector, of the chunk.
read_data ==
    /\ rs_pc = "data"
    /\ rs_seen' = NoSeen
    /\ IF rs_off + 2 * SECTOR_WORDS > rs_arg.buflen
       THEN /\ rs_pc' = "panic"
            /\ UNCHANGED <<rs_lba, rs_count, rs_off, rs_i, buffer, dev_cur,
                           words_read>>
       ELSE /\ buffer' = [buffer EXCEPT ![(rs_off \div SECTOR_BYTES) + 1] =
                             Stored(dev_cur, read_words(dev_cur))]
            /\ rs_off' = rs_off + 2 * SECTOR_WORDS
            /\ words_read' = words_read + SECTOR_WORDS
            /\ dev_cur' = <<(dev_cur[1] + (dev_cur[2] + 1) \div Half) % 4096,
                            (dev_cur[2] + 1) % Half>>
            /\ rs_i' = rs_i + 1
            /\ IF rs_i + 1 < rs_chunk
               THEN /\ rs_pc' = "alt"
                    /\ UNCHANGED <<rs_lba, rs_count>>
               ELSE /\ rs_lba' = advance_lba(rs_lba, rs_chunk)
                    /\ rs_count' = rs_count - rs_chunk
                    /\ rs_pc' = IF rs_count - rs_chunk > 0 THEN "sel" ELSE "ok"
    /\ UNCHANGED <<rs_arg, rs_chunk, regs, commands, err_seen, mem_vars,
                   mbr_vars, ext_vars, ldr_vars>>

NextDisk ==
    \/ \E lba \in ReadLbas, count \in ReadCounts, slack \in BufferSlack :
           /\ count * SECTOR_BYTES + slack >= 0
           /\ read_sectors(lba, count, count * SECTOR_BYTES + slack)
    \/ select_drive
    \/ write_seccount
    \/ write_lba0
    \/ write_lba1
    \/ write_lba2
    \/ issue_read
    \/ dummy_reads
    \/ poll_bsy
    \/ poll_drq
    \/ read_data


----------------------------------------------------------------------------
(* EXT reader (src/fs/ext.rs): the disk it reads and its cached state       *)

\* floor(a / b) and a mod b for 32-bit words, b # 0, by shift and subtract
\* from bit i down; r may briefly need 33 bits, kept in the high half.
BitOf(a, i) == IF i >= 16 THEN (a[1] \div (2 ^ (i - 16))) % 2
                          ELSE (a[2] \div (2 ^ i)) % 2
WithBit(q, i) == IF i >= 16 THEN <<q[1] + 2 ^ (i - 16), q[2]>>
                            ELSE <<q[1], q[2] + 2 ^ i>>
RECURSIVE DivBits(_, _, _, _, _)
DivBits(a, b, i, q, r) ==
    IF i < 0 THEN [q |-> q, r |-> r]
    ELSE LET lo == r[2] * 2 + BitOf(a, i)
             r2 == <<r[1] * 2 + (lo \div Half), lo % Half>>
         IN  IF Le(b, r2)
             THEN DivBits(a, b, i - 1, WithBit(q, i),
                          <<r2[1] - b[1] - (IF r2[2] < b[2] THEN 1 ELSE 0),
                            (Half + r2[2] - b[2]) % Half>>)
             ELSE DivBits(a, b, i - 1, q, r2)
\* Words below 2^31 are divided as numbers.
Div(a, b) ==
    IF a[1] < 32768 /\ b[1] < 32768
    THEN W((a[1] * Half + a[2]) \div (b[1] * Half + b[2]))
    ELSE DivBits(a, b, 31, <<0, 0>>, <<0, 0>>).q
Mod(a, b) ==
    IF a[1] < 32768 /\ b[1] < 32768
    THEN W((a[1] * Half + a[2]) % (b[1] * Half + b[2]))
    ELSE DivBits(a, b, 31, <<0, 0>>, <<0, 0>>).r

EXT_MAGIC == 61267                 \* 0xEF53
INCOMPAT_EXTENTS == 64             \* 0x40
INCOMPAT_64BIT == 128              \* 0x80
MAX_BLOCK_SIZE == 4096

\* Ext2Superblock, the fields the reader uses.
Superblock(magic, feature_incompat, log_block_size, inodes_per_group, first_data_block, rev_level, inode_size) ==
    [magic |-> magic, feature_incompat |-> feature_incompat,
     log_block_size |-> log_block_size, inodes_per_group |-> inodes_per_group,
     first_data_block |-> first_data_block, rev_level |-> rev_level,
     inode_size |-> inode_size]

\* 1024 bytes of zeros read as a superblock.
ZeroSuperblock == Superblock(0, W(0), W(0), W(0), W(0), W(0), 0)

\* The 28 bits of an LBA that read_sectors hands to the device.
Lba28(lba) == <<lba[1] % 4096, lba[2]>>

\* SUPERBLOCK = None, BLOCK_SIZE = 0, SECTORS_PER_BLOCK = 0,
\* PARTITION_LBA_BASE = 0
NoFs == [some |-> FALSE, superblock |-> ZeroSuperblock, block_size |-> 0,
         sectors_per_block |-> 0, partition_lba_base |-> W(0)]

NoFsCall == [op |-> "none", arg |-> <<>>, kind |-> "none", msg |-> "",
             sb |-> ZeroSuperblock, read_ok |-> FALSE]

NoImage == [part |-> W(0), sb |-> ZeroSuperblock, blocks |-> <<>>]

\* read_inode_data's locals; k, pi, i, j count the loops' turns, ind, ind2
\* and ind1 are the sectors the pointer blocks in ind_block (single),
\* ind2_block and ind_block (double) were read from.
NoLocals == [path |-> <<>>, inode |-> [mode |-> 0, size |-> <<0, 0>>, block |-> <<>>],
             file_size |-> 0, bytes_read |-> 0, k |-> 0, pi |-> 0, i |-> 0,
             j |-> 0, ind |-> <<0, 0>>, ind2 |-> <<0, 0>>, ind1 |-> <<0, 0>>]

\* FileBuffer::new(): no data, size 0.  data is kept as the pieces copied
\* into it in order, each the first len bytes of the block read at lba.
NewFileBuffer == [data |-> <<>>, size |-> 0]

\* The reader is not in use.
ExtIdle ==
    /\ image = NoImage
    /\ fs = NoFs
    /\ fs_ret = NoFsCall
    /\ fs_reads = <<>>
    /\ rf_pc = "idle"
    /\ rf = NoLocals
    /\ rf_buf = NewFileBuffer

\* The global manager and the loader are not in use.
NoLdrCall == [op |-> "none", arg |-> <<>>, kind |-> "none", msg |-> "",
              val |-> <<0, 0>>]
NoElf == [len |-> 0, ident |-> <<0, 0, 0, 0>>, class |-> 0, data |-> 0,
          entry |-> <<0, 0>>, ph_offset |-> <<0, 0>>, ph_size |-> 0,
          ph_count |-> 0, phs |-> <<>>]
NoLoad == [elf |-> NoElf, load_addr |-> <<0, 0>>, entry |-> <<0, 0>>]
NoBoot == [pc |-> "off", path |-> 0, log |-> <<>>, msg |-> ""]

LoaderIdle ==
    /\ boot = NoBoot
    /\ manager_some = FALSE
    /\ ldr_ret = NoLdrCall
    /\ lk_pc = "idle"
    /\ lk = NoLoad
    /\ writes = <<>>

\* The two sectors the device delivers for a read at `lba`: the image's
\* superblock sits 1024 bytes into its partition, zeros elsewhere.
SuperblockAt(img, lba) ==
    IF Lba28(lba) = AddWrap(img.part, W(2)) THEN img.sb ELSE ZeroSuperblock

\* 1024usize.wrapping_shl(s): the shift count is taken modulo 32.
wrapping_shl_1024(s) ==
    LET n == s[2] % 32 IN
    IF n + 10 < 16 THEN [some |-> TRUE, val |-> <<0, 2 ^ (n + 10)>>]
    ELSE IF n + 10 < 32 THEN [some |-> TRUE, val |-> <<2 ^ (n - 6), 0>>]
    ELSE [some |-> TRUE, val |-> W(0)]

\* 1024usize.checked_shl(log_block_size): None for a shift of 32 or more,
\* else the low 32 bits of the shifted value.
checked_shl_1024(s) ==
    IF s[1] # 0 \/ s[2] >= 32 THEN [some |-> FALSE, val |-> W(0)]
    ELSE IF s[2] + 10 < 16 THEN [some |-> TRUE, val |-> <<0, 2 ^ (s[2] + 10)>>]
    ELSE IF s[2] + 10 < 32 THEN [some |-> TRUE, val |-> <<2 ^ (s[2] - 6), 0>>]
    ELSE [some |-> TRUE, val |-> W(0)]

\* init_with_lba after its read: the checks of the superblock, giving the
\* result and the block size to cache.
check_superblock(sb) ==
    IF sb.magic # EXT_MAGIC THEN [kind |-> "Err", msg |-> "Not an EXT filesystem", bs |-> 0]
    ELSE IF BitSet(sb.feature_incompat[2], INCOMPAT_EXTENTS)
            \/ BitSet(sb.feature_incompat[2], INCOMPAT_64BIT)
    THEN [kind |-> "Err", msg |-> "EXT filesystem uses unsupported features (extents/64bit)", bs |-> 0]
    ELSE LET shl == checked_shl_1024(sb.log_block_size) IN
         IF ~shl.some THEN [kind |-> "Err", msg |-> "bad log_block_size", bs |-> 0]
         ELSE IF shl.val = W(0) THEN [kind |-> "Err", msg |-> "invalid block size", bs |-> 0]
         ELSE IF Lt(W(MAX_BLOCK_SIZE), shl.val)
         THEN [kind |-> "Err", msg |-> "Unsupported EXT block size (>4096)", bs |-> 0]
         ELSE IF shl.val[2] % SECTOR_BYTES # 0
         THEN [kind |-> "Err", msg |-> "Unsupported EXT block size (not multiple of 512)", bs |-> 0]
         ELSE [kind |-> "Ok", msg |-> "", bs |-> shl.val[2]]

\* init_with_lba(lba_base); the device may fail the read of the superblock.
init_with_lba(lba_base) ==
    /\ fs_ret.kind # "panic"
    /\ rf_pc = "idle"
    /\ \E dev_ok \in BOOLEAN :
         LET lba == AddWrap(lba_base, W(2))
             sb == SuperblockAt(image, lba)
             chk == check_superblock(sb)
             based == [fs EXCEPT !.partition_lba_base = lba_base]
         IN  /\ fs_reads' = <<[lba |-> lba, count |-> 2]>>
             /\ IF ~dev_ok
                THEN /\ fs' = based
                     /\ fs_ret' = [op |-> "init_with_lba", arg |-> <<lba_base>>,
                                   kind |-> "Err", msg |-> "ATA", sb |-> ZeroSuperblock,
                                   read_ok |-> FALSE]
                ELSE /\ fs' = IF chk.kind = "Ok"
                              THEN [some |-> TRUE, superblock |-> sb,
                                    block_size |-> chk.bs,
                                    sectors_per_block |-> chk.bs \div SECTOR_BYTES,
                                    partition_lba_base |-> lba_base]
                              ELSE based
                     /\ fs_ret' = [op |-> "init_with_lba", arg |-> <<lba_base>>,
                                   kind |-> chk.kind, msg |-> chk.msg, sb |-> sb,
                                   read_ok |-> TRUE]
    /\ UNCHANGED <<image, rf_pc, rf, rf_buf, mem_vars, mbr_vars, disk_vars,
                   ldr_vars>>

----------------------------------------------------------------------------
(* EXT reader: blocks, inodes, directory entries                            *)

BGD_BYTES == 32                    \* size_of::<Ext2BlockGroupDescriptor>()
DEFAULT_INODE_SIZE == 128
EXT2_S_IFREG == 32768              \* 0x8000
EXT2_S_IFDIR == 16384              \* 0x4000
MAX_FILE_SIZE_256K == W(262144)    \* a quarter of the limit
MAX_FILE_SIZE == W(1048576)        \* 1024 * 1024
DIRECT_BLOCKS == 12
ROOT_INODE == W(2)

\* Ext2Inode, the fields the reader uses; block is block[0..15), from index 1.
Inode(mode, size, block) == [mode |-> mode, size |-> size, block |-> block]
ZeroInode == Inode(0, W(0), [k \in 1..15 |-> W(0)])

\* A directory entry at byte `off` of its block: the header and the string
\* its name bytes spell (utf8 FALSE: they are no UTF-8 string).
DirEntry(off, inode, rec_len, name_len, name, utf8) ==
    [off |-> off, inode |-> inode, rec_len |-> rec_len, name_len |-> name_len,
     name |-> name, utf8 |-> utf8]

\* One block of the disk, by what its bytes hold when they are read as group
\* descriptors (gd[i + 1] the inode_table of descriptor i), as inode records
\* at byte offsets, as directory entries at byte offsets, or as 32-bit block
\* pointers (list, then n consecutive numbers from `from`, then zeros).
\* Bytes a block does not describe are zero.  lba is its first sector.
Block(lba, gd, ino, dir, list, from, n) ==
    [lba |-> lba, gd |-> gd, ino |-> ino, dir |-> dir, list |-> list,
     from |-> from, n |-> n]
ZeroBlock(lba) == Block(lba, <<>>, <<>>, <<>>, <<>>, W(0), 0)

\* The block the device delivers for a read that starts at sector `lba`.
BlockAt(img, lba) ==
    LET l28 == Lba28(lba)
        at == {k \in 1..Len(img.blocks) : img.blocks[k].lba = l28}
    IN  IF at = {} THEN ZeroBlock(l28) ELSE img.blocks[CHOOSE k \in at : TRUE]

\* bgd.inode_table of the descriptor at byte `index_in_block`
InodeTableAt(blk, index_in_block) ==
    LET i == (index_in_block \div BGD_BYTES) + 1
    IN  IF i <= Len(blk.gd) THEN blk.gd[i] ELSE W(0)

\* the Ext2Inode at byte `inode_offset`
InodeAt(blk, inode_offset) ==
    LET at == {k \in 1..Len(blk.ino) : blk.ino[k].off = inode_offset}
    IN  IF at = {} THEN ZeroInode ELSE blk.ino[CHOOSE k \in at : TRUE].inode

\* read_dir_entry(buf, offset)
read_dir_entry(blk, offset) ==
    LET at == {k \in 1..Len(blk.dir) : blk.dir[k].off = offset}
    IN  IF at = {} THEN DirEntry(offset, W(0), 0, 0, "", TRUE)
        ELSE blk.dir[CHOOSE k \in at : TRUE]

\* u32::from_le_bytes of the four bytes at p = pi * 4 of a pointer block
PtrAt(blk, pi) ==
    IF pi < Len(blk.list) THEN blk.list[pi + 1]
    ELSE IF pi - Len(blk.list) < blk.n
    THEN AddWrap(blk.from, W(pi - Len(blk.list)))
    ELSE W(0)

\* The result of a helper: kind "Ok", "Err" or "panic", the value, and the
\* read_sectors calls made so far.  The device fails the read number
\* fail_at (from 0) of a call and delivers every other one.
Res(kind, msg, val, reads) == [kind |-> kind, msg |-> msg, val |-> val, reads |-> reads]

\* read_block(block_num, buffer): val is the block read.
read_block(block_num, reads, fail_at) ==
    IF fs.sectors_per_block = 0
    THEN Res("Err", "Filesystem not initialized (sectors_per_block=0)", ZeroBlock(W(0)), reads)
    ELSE IF overflow_checks /\ MulOverflows(block_num, fs.sectors_per_block)
    THEN Res("panic", "attempt to multiply with overflow", ZeroBlock(W(0)), reads)
    ELSE LET start_sector == AddWrap(fs.partition_lba_base,
                                     MulWrap(block_num, fs.sectors_per_block))
             issued == Append(reads, [lba |-> start_sector,
                                      count |-> fs.sectors_per_block])
         IN  IF Len(reads) = fail_at
             THEN Res("Err", "ATA", ZeroBlock(W(0)), issued)
             ELSE Res("Ok", "", BlockAt(image, start_sector), issued)

\* descriptors_per_block
descriptors_per_block == fs.block_size \div BGD_BYTES

\* The inode record size get_inode uses.
inode_size_of(sb) ==
    IF Le(W(1), sb.rev_level)
       /\ sb.inode_size >= DEFAULT_INODE_SIZE /\ sb.inode_size <= fs.block_size
       /\ sb.inode_size % 4 = 0
    THEN sb.inode_size ELSE DEFAULT_INODE_SIZE

\* group = (inode_num - 1) / superblock.inodes_per_group
inode_group(inode_num, sb) == Div(SubWrap(inode_num, W(1)), sb.inodes_per_group)

\* The index in the group taken from the number itself, as if inodes were
\* counted from 0.
inode_local_from_zero(inode_num, sb) == Mod(inode_num, sb.inodes_per_group)

\* local_inode = (inode_num - 1) % superblock.inodes_per_group
inode_local(inode_num, sb) == Mod(SubWrap(inode_num, W(1)), sb.inodes_per_group)

\* get_inode(inode_num): val is the inode.
get_inode(inode_num, reads, fail_at) ==
    LET sb == fs.superblock
        err(kind, msg) == Res(kind, msg, ZeroInode, reads)
    IN
    IF ~fs.some THEN err("Err", "Filesystem not initialized")
    ELSE IF inode_num = W(0) THEN err("Err", "invalid inode 0")
    ELSE IF sb.inodes_per_group = W(0)
    THEN err("panic", "attempt to divide by zero")
    ELSE IF overflow_checks /\ AddOverflows(sb.first_data_block, W(1))
    THEN err("panic", "attempt to add with overflow")
    ELSE
      LET group == inode_group(inode_num, sb)
          local_inode == inode_local(inode_num, sb)
          gdt_start == AddWrap(sb.first_data_block, W(1))
          d_per_blk == descriptors_per_block
      IN
      IF d_per_blk = 0 THEN err("Err", "invalid descriptors_per_block")
      ELSE
        LET gdt_off == Div(group, W(d_per_blk))
            index_in_block == Mod(group, W(d_per_blk))[2] * BGD_BYTES
            \* the code after read_block(gdt_block, &mut buf)
            gdt_read(r1) ==
              IF r1.kind # "Ok" THEN Res(r1.kind, r1.msg, ZeroInode, r1.reads)
              ELSE IF index_in_block + BGD_BYTES > fs.block_size
              THEN Res("Err", "BGD index out of range", ZeroInode, r1.reads)
              ELSE
                LET inode_table == InodeTableAt(r1.val, index_in_block)
                    inode_size == inode_size_of(sb)
                    inodes_per_block == fs.block_size \div inode_size
                IN
                IF inodes_per_block = 0
                THEN Res("Err", "invalid inodes_per_block", ZeroInode, r1.reads)
                ELSE
                  LET blk_off == Div(local_inode, W(inodes_per_block))
                      inode_offset ==
                          Mod(local_inode, W(inodes_per_block))[2] * inode_size
                      \* the code after read_block(inode_block, &mut buf)
                      table_read(r2) ==
                        IF r2.kind # "Ok"
                        THEN Res(r2.kind, r2.msg, ZeroInode, r2.reads)
                        ELSE IF inode_offset + inode_size > fs.block_size
                        THEN Res("Err", "inode offset out of range", ZeroInode, r2.reads)
                        ELSE Res("Ok", "", InodeAt(r2.val, inode_offset), r2.reads)
                  IN
                  IF overflow_checks /\ AddOverflows(inode_table, blk_off)
                  THEN Res("panic", "attempt to add with overflow", ZeroInode, r1.reads)
                  ELSE table_read(read_block(AddWrap(inode_table, blk_off),
                                             r1.reads, fail_at))
        IN
        IF overflow_checks /\ AddOverflows(gdt_start, gdt_off)
        THEN err("panic", "attempt to add with overflow")
        ELSE gdt_read(read_block(AddWrap(gdt_start, gdt_off), reads, fail_at))

\* A call of get_inode(inode_num) by itself; the device may fail its first or
\* its second read.
get_inode_call(inode_num) ==
    /\ fs_ret.kind # "panic"
    /\ rf_pc = "idle"
    /\ \E fail_at \in {0, 1, 2} : \E r \in {get_inode(inode_num, <<>>, fail_at)} :
         /\ fs_reads' = r.reads
         /\ fs_ret' = [op |-> "get_inode", arg |-> <<inode_num>>, kind |-> r.kind,
                       msg |-> r.msg, sb |-> ZeroSuperblock, read_ok |-> FALSE]
         /\ rf' = [NoLocals EXCEPT !.inode = r.val]
    /\ UNCHANGED <<image, fs, rf_pc, rf_buf, mem_vars, mbr_vars, disk_vars,
                   ldr_vars>>

\* The scan of a directory block that ends at an entry whose name does not
\* fit its record.
RECURSIVE scan_dir_block_stop(_, _, _)
scan_dir_block_stop(blk, offset, filename) ==
    IF offset + 8 > fs.block_size THEN [found |-> FALSE, inode |-> W(0)]
    ELSE
      LET at(entry) ==
            IF \/ entry.inode = W(0) \/ entry.rec_len = 0
               \/ entry.rec_len < 8 \/ offset + entry.rec_len > fs.block_size
               \/ 8 + entry.name_len > entry.rec_len
               \/ offset + 8 + entry.name_len > fs.block_size
            THEN [found |-> FALSE, inode |-> W(0)]
            ELSE IF entry.utf8 /\ entry.name = filename
            THEN [found |-> TRUE, inode |-> entry.inode]
            ELSE scan_dir_block_stop(blk, offset + entry.rec_len, filename)
      IN  at(read_dir_entry(blk, offset))

\* One directory block scanned from byte `offset` on (the inner while loop of
\* find_file_in_directory): the inode of the first entry named filename.
RECURSIVE scan_dir_block(_, _, _)
scan_dir_block(blk, offset, filename) ==
    IF offset + 8 > fs.block_size THEN [found |-> FALSE, inode |-> W(0)]
    ELSE
      LET at(entry) ==
            IF entry.inode = W(0) \/ entry.rec_len = 0
            THEN [found |-> FALSE, inode |-> W(0)]
            ELSE IF entry.rec_len < 8 \/ offset + entry.rec_len > fs.block_size
            THEN [found |-> FALSE, inode |-> W(0)]
            ELSE IF /\ 8 + entry.name_len <= entry.rec_len
                    /\ offset + 8 + entry.name_len <= fs.block_size
                    /\ entry.utf8
                    /\ entry.name = filename
            THEN [found |-> TRUE, inode |-> entry.inode]
            ELSE scan_dir_block(blk, offset + entry.rec_len, filename)
      IN  at(read_dir_entry(blk, offset))

\* A directory block that was read is scanned: the entry's inode, or what
\* `rest` gives for the read_sectors calls made so far.
scan_read(r, filename, rest(_)) ==
    IF r.kind # "Ok" THEN Res(r.kind, r.msg, W(0), r.reads)
    ELSE LET scanned(hit) == IF hit.found THEN Res("Ok", "", hit.inode, r.reads)
                             ELSE rest(r.reads)
         IN  scanned(scan_dir_block(r.val, 0, filename))

\* The loop over the single-indirect directory blocks, from pointer pi on.
RECURSIVE scan_dir_indirect(_, _, _, _, _)
scan_dir_indirect(ind_block, pi, filename, reads, fail_at) ==
    IF pi >= fs.block_size \div 4 THEN Res("Err", "File not found", W(0), reads)
    ELSE
      LET ptr == PtrAt(ind_block, pi)
          rest(rd) == scan_dir_indirect(ind_block, pi + 1, filename, rd, fail_at)
      IN  IF ptr = W(0) THEN Res("Err", "File not found", W(0), reads)
          ELSE scan_read(read_block(ptr, reads, fail_at), filename, rest)

\* The loop over the direct blocks, from block[k - 1] on, then the
\* single-indirect part.
RECURSIVE scan_dir_direct(_, _, _, _, _)
scan_dir_direct(dir_inode, k, filename, reads, fail_at) ==
    IF k > DIRECT_BLOCKS
    THEN IF dir_inode.block[13] = W(0)
         THEN Res("Err", "File not found", W(0), reads)
         ELSE LET ind_read(r) ==
                    IF r.kind # "Ok" THEN Res(r.kind, r.msg, W(0), r.reads)
                    ELSE scan_dir_indirect(r.val, 0, filename, r.reads, fail_at)
              IN  ind_read(read_block(dir_inode.block[13], reads, fail_at))
    ELSE IF dir_inode.block[k] = W(0)
    THEN scan_dir_direct(dir_inode, k + 1, filename, reads, fail_at)
    ELSE
      LET rest(rd) == scan_dir_direct(dir_inode, k + 1, filename, rd, fail_at)
      IN  scan_read(read_block(dir_inode.block[k], reads, fail_at), filename, rest)

\* find_file_in_directory(dir_inode, filename): val is the inode number.
find_file_in_directory(dir_inode, filename, reads, fail_at) ==
    scan_dir_direct(dir_inode, 1, filename, reads, fail_at)

\* The path loop of read_file from byte i on (bytes[i] is path[i + 1]):
\* val is the inode number the path resolves to.
RECURSIVE walk_path(_, _, _, _, _, _)
walk_path(path, i, start, current_inode_num, reads, fail_at) ==
    LET len == Len(path) IN
    IF i > len THEN Res("Ok", "", current_inode_num, reads)
    ELSE IF (i = len \/ path[i + 1] = "/") /\ i > start
    THEN
      LET component == SubSeq(path, start + 1, i)
          found(f) ==
            IF f.kind # "Ok" THEN f
            ELSE walk_path(path, i + 1, i + 1, f.val, f.reads, fail_at)
          looked_up(g) ==
            IF g.kind # "Ok" THEN Res(g.kind, g.msg, W(0), g.reads)
            ELSE IF i < len /\ ~BitSet(g.val.mode, EXT2_S_IFDIR)
            THEN Res("Err", "Not a directory", W(0), g.reads)
            ELSE found(find_file_in_directory(g.val, component, g.reads, fail_at))
      IN  looked_up(get_inode(current_inode_num, reads, fail_at))
    ELSE IF i = len \/ path[i + 1] = "/"
    THEN walk_path(path, i + 1, i + 1, current_inode_num, reads, fail_at)
    ELSE walk_path(path, i + 1, start, current_inode_num, reads, fail_at)

\* read_file up to the call of read_inode_data: val is the file's inode.
open_file(path, fail_at) ==
    IF Len(path) = 0 \/ path[1] # "/"
    THEN Res("Err", "Path must be absolute", ZeroInode, <<>>)
    ELSE
      LET last(g) ==
            IF g.kind # "Ok" THEN g
            ELSE IF ~BitSet(g.val.mode, EXT2_S_IFREG)
            THEN Res("Err", "Not a regular file", ZeroInode, g.reads)
            ELSE g
          walked(w) ==
            IF w.kind # "Ok" THEN Res(w.kind, w.msg, ZeroInode, w.reads)
            ELSE last(get_inode(w.val, w.reads, fail_at))
      IN  walked(walk_path(path, 1, 1, ROOT_INODE, <<>>, fail_at))

----------------------------------------------------------------------------
(* EXT reader: read_file and read_inode_data, one block read per step       *)

\* A word below 2^31 as a number.
Val(w) == w[1] * Half + w[2]

\* The result of a call of read_file.
FileResult(kind, msg) ==
    [op |-> "read_file", arg |-> <<rf.path>>, kind |-> kind, msg |-> msg,
     sb |-> ZeroSuperblock, read_ok |-> FALSE]

\* min(block_size, file_size - bytes_read)
to_copy(bytes_read, file_size) ==
    IF fs.block_size < file_size - bytes_read THEN fs.block_size
    ELSE file_size - bytes_read

\* An upper bound on the read_sectors calls of one path resolution.
MaxWalkReads == 64

\* Which read the device fails while a path is resolved: the first, the
\* fourth, or none.
FailAts == {0, 3, MaxWalkReads}

\* read_file(path), up to the first turn of read_inode_data's direct loop.
read_file(path) ==
    /\ fs_ret.kind # "panic"
    /\ rf_pc = "idle"
    /\ \E fail_at \in FailAts : \E o \in {open_file(path, fail_at)} :
         LET ret(kind, msg) ==
                 [op |-> "read_file", arg |-> <<path>>, kind |-> kind,
                  msg |-> msg, sb |-> ZeroSuperblock, read_ok |-> FALSE]
         IN  /\ fs_reads' = o.reads
             /\ rf_buf' = NewFileBuffer
             /\ IF o.kind # "Ok"
                THEN /\ fs_ret' = ret(o.kind, o.msg)
                     /\ rf' = [NoLocals EXCEPT !.path = path]
                     /\ rf_pc' = "idle"
                ELSE IF Lt(MAX_FILE_SIZE, o.val.size)
                THEN /\ fs_ret' = ret("Err", "File too large")
                     /\ rf' = [NoLocals EXCEPT !.path = path, !.inode = o.val]
                     /\ rf_pc' = "idle"
                ELSE /\ fs_ret' = ret("running", "")
                     /\ rf' = [NoLocals EXCEPT !.path = path, !.inode = o.val,
                                               !.file_size = Val(o.val.size)]
                     /\ rf_pc' = "direct"
    /\ UNCHANGED <<image, fs, mem_vars, mbr_vars, disk_vars, ldr_vars>>

\* read_block(ptr, &mut data_block)?, then the copy of to_copy bytes into
\* buffer.data at bytes_read; `after` sets the loop's locals.
copy_block(ptr, dev_ok, after) ==
    LET r == read_block(ptr, fs_reads, IF dev_ok THEN Len(fs_reads) + 1
                                                 ELSE Len(fs_reads))
        n == to_copy(rf.bytes_read, rf.file_size)
    IN  /\ fs_reads' = r.reads
        /\ IF r.kind # "Ok"
           THEN /\ fs_ret' = FileResult(r.kind, r.msg)
                /\ rf_pc' = "idle"
                /\ rf' = [NoLocals EXCEPT !.path = rf.path]
                /\ rf_buf' = NewFileBuffer
           ELSE /\ rf_buf' = [rf_buf EXCEPT
                                 !.data = Append(@, [lba |-> r.val.lba, len |-> n])]
                /\ rf' = [after EXCEPT !.bytes_read = rf.bytes_read + n]
                /\ UNCHANGED <<fs_ret, rf_pc>>

\* read_block(ptr, &mut ind_block)?: a pointer block is read; `after` sets
\* the locals from the block, `next` is where to go on.
read_pointers(ptr, dev_ok, next, after(_)) ==
    LET r == read_block(ptr, fs_reads, IF dev_ok THEN Len(fs_reads) + 1
                                                 ELSE Len(fs_reads))
    IN  /\ fs_reads' = r.reads
        /\ IF r.kind # "Ok"
           THEN /\ fs_ret' = FileResult(r.kind, r.msg)
                /\ rf_pc' = "idle"
                /\ rf' = [NoLocals EXCEPT !.path = rf.path]
                /\ rf_buf' = NewFileBuffer
           ELSE /\ rf' = after(r.val.lba)
                /\ rf_pc' = next
                /\ UNCHANGED <<fs_ret, rf_buf>>

\* buffer.size = bytes_read; return Ok(())
return_buffer ==
    /\ rf_buf' = [rf_buf EXCEPT !.size = rf.bytes_read]
    /\ fs_ret' = FileResult("Ok", "")
    /\ rf_pc' = "idle"
    /\ UNCHANGED <<rf, fs_reads>>

goto(next) ==
    /\ rf_pc' = next
    /\ UNCHANGED <<rf, rf_buf, fs_ret, fs_reads>>

\* One turn of the loop over the direct blocks, or its end.
read_direct ==
    /\ rf_pc = "direct"
    /\ \E dev_ok \in BOOLEAN :
         IF /\ rf.k < DIRECT_BLOCKS
            /\ rf.inode.block[rf.k + 1] # W(0)
            /\ rf.bytes_read < rf.file_size
         THEN copy_block(rf.inode.block[rf.k + 1], dev_ok, [rf EXCEPT !.k = rf.k + 1])
         ELSE IF rf.bytes_read >= rf.file_size THEN return_buffer
         ELSE goto("single")
    /\ UNCHANGED <<image, fs, mem_vars, mbr_vars, disk_vars, ldr_vars>>

\* Single-indirect: the read of block[12].
read_single_indirect ==
    /\ rf_pc = "single"
    /\ \E dev_ok \in BOOLEAN :
         IF rf.bytes_read < rf.file_size /\ rf.inode.block[13] # W(0)
         THEN read_pointers(rf.inode.block[13], dev_ok, "single_loop",
                            LAMBDA lba : [rf EXCEPT !.ind = lba, !.pi = 0])
         ELSE goto("double")
    /\ UNCHANGED <<image, fs, mem_vars, mbr_vars, disk_vars, ldr_vars>>

\* One turn of the loop over the single-indirect block's pointers.
read_single_block ==
    /\ rf_pc = "single_loop"
    /\ \E dev_ok \in BOOLEAN :
         LET ptr == PtrAt(BlockAt(image, rf.ind), rf.pi) IN
         IF /\ rf.pi < fs.block_size \div 4
            /\ rf.bytes_read < rf.file_size
            /\ ptr # W(0)
         THEN copy_block(ptr, dev_ok, [rf EXCEPT !.pi = rf.pi + 1])
         ELSE goto("double")
    /\ UNCHANGED <<image, fs, mem_vars, mbr_vars, disk_vars, ldr_vars>>

\* Double-indirect: the read of block[13].
read_double_indirect ==
    /\ rf_pc = "double"
    /\ \E dev_ok \in BOOLEAN :
         IF rf.bytes_read < rf.file_size /\ rf.inode.block[14] # W(0)
         THEN read_pointers(rf.inode.block[14], dev_ok, "double_outer",
                            LAMBDA lba : [rf EXCEPT !.ind2 = lba, !.i = 0])
         ELSE goto("end")
    /\ UNCHANGED <<image, fs, mem_vars, mbr_vars, disk_vars, ldr_vars>>

\* One turn of the outer loop: the read of the block ptr1 names.
read_double_outer ==
    /\ rf_pc = "double_outer"
    /\ \E dev_ok \in BOOLEAN :
         LET ptr1 == PtrAt(BlockAt(image, rf.ind2), rf.i) IN
         IF /\ rf.i < fs.block_size \div 4
            /\ rf.bytes_read < rf.file_size
            /\ ptr1 # W(0)
         THEN read_pointers(ptr1, dev_ok, "double_inner",
                            LAMBDA lba : [rf EXCEPT !.ind1 = lba, !.j = 0])
         ELSE goto("end")
    /\ UNCHANGED <<image, fs, mem_vars, mbr_vars, disk_vars, ldr_vars>>

\* One turn of the inner loop, or its end and the outer loop's i += 1.
read_double_block ==
    /\ rf_pc = "double_inner"
    /\ \E dev_ok \in BOOLEAN :
         LET ptr2 == PtrAt(BlockAt(image, rf.ind1), rf.j) IN
         IF /\ rf.j < fs.block_size \div 4
            /\ rf.bytes_read < rf.file_size
            /\ ptr2 # W(0)
         THEN copy_block(ptr2, dev_ok, [rf EXCEPT !.j = rf.j + 1])
         ELSE /\ rf' = [rf EXCEPT !.i = rf.i + 1]
              /\ rf_pc' = "double_outer"
              /\ UNCHANGED <<rf_buf, fs_ret, fs_reads>>
    /\ UNCHANGED <<image, fs, mem_vars, mbr_vars, disk_vars, ldr_vars>>

\* The final check left out.
always_complete(bytes_read, file_size) == TRUE

\* The end of read_inode_data: fewer bytes than the size is an error.
data_complete(bytes_read, file_size) == ~(bytes_read < file_size)

read_inode_data_end ==
    /\ rf_pc = "end"
    /\ IF data_complete(rf.bytes_read, rf.file_size)
       THEN return_buffer
       ELSE /\ fs_ret' = FileResult("Err", "Large files not fully supported (needs triple indirect)")
            /\ rf_pc' = "idle"
            /\ rf' = [NoLocals EXCEPT !.path = rf.path]
            /\ rf_buf' = NewFileBuffer
            /\ UNCHANGED fs_reads
    /\ UNCHANGED <<image, fs, mem_vars, mbr_vars, disk_vars, ldr_vars>>

----------------------------------------------------------------------------
(* EXT reader: the disks it is run on                                       *)

\* A superblock of block size 1024 << L with 16 inodes per group, 128-byte
\* inodes and the first data block ext2 gives that block size.
StdSb(L) ==
    Superblock(EXT_MAGIC, W(2), W(L), W(16), W(IF L = 0 THEN 1 ELSE 0), W(0), 0)

\* A block described by its block number, put at its sectors.
Place(part, spb, blk) == [blk EXCEPT !.lba = AddWrap(part, MulWrap(blk.lba, spb))]

PtrList(n, list) == Block(W(n), <<>>, <<>>, <<>>, list, W(0), 0)
PtrRun(n, from, count) == Block(W(n), <<>>, <<>>, <<>>, <<>>, W(from), count)
DirBlock(n, entries) == Block(W(n), <<>>, <<>>, entries, <<>>, W(0), 0)
Named(off, ino, name) == DirEntry(off, W(ino), 8 + 4 * ((Len(name) + 3) \div 4),
                                  Len(name), name, TRUE)

\* block[0..15) from the direct pointers given, then single and double.
Blocks15(direct, single, double) ==
    [k \in 1..15 |-> IF k <= Len(direct) THEN W(direct[k])
                     ELSE IF k = 13 THEN W(single)
                     ELSE IF k = 14 THEN W(double)
                     ELSE W(0)]
Run(from, n) == [k \in 1..n |-> from + k - 1]
RegFile(size, direct, single, double) ==
    Inode(EXT2_S_IFREG + 420, size, Blocks15(direct, single, double))
Dir(direct, single) ==
    Inode(EXT2_S_IFDIR + 493, W(1024), Blocks15(direct, single, 0))

\* A file system in the partition at `part`, block size 1024 << L: the
\* descriptor table names block 5 as the inode table, which holds the root
\* directory (inode 2) and the inodes 3, 4, 5 given; `blocks` are its other
\* blocks by number.
Disk(part, sb, L, root, i3, i4, i5, blocks) ==
    LET spb == 2 ^ (L + 1)
        meta == <<Block(W(IF L = 0 THEN 2 ELSE 1), <<W(5)>>, <<>>, <<>>, <<>>, W(0), 0),
                  Block(W(5), <<>>,
                        <<[off |-> 128, inode |-> root], [off |-> 256, inode |-> i3],
                          [off |-> 384, inode |-> i4], [off |-> 512, inode |-> i5]>>,
                        <<>>, <<>>, W(0), 0)>>
        all == meta \o blocks
    IN  [part |-> part, sb |-> sb,
         blocks |-> [k \in 1..Len(all) |-> Place(part, spb, all[k])]]

\* The root directory in block 10 with the one entry "k" for inode 3.
RootK == Dir(<<10>>, 0)
RootKBlock == DirBlock(10, <<Named(0, 3, <<"k">>)>>)
OneFile(part, sb, L, i3, blocks) ==
    Disk(part, sb, L, RootK, i3, ZeroInode, ZeroInode, <<RootKBlock>> \o blocks)

Part == W(2048)

\* Superblocks of every kind init_with_lba tells apart, on an empty disk.
SbMagics == {EXT_MAGIC, 61265}
SbFeatures == {W(0), W(2), W(64), W(128), W(194)}
SbLogs == {W(0), W(1), W(2), W(3), W(21), W(22), W(31), W(32), <<1, 0>>,
           <<1, 1>>, <<65535, 65535>>}
SbDisks ==
    {[part |-> Part,
      sb |-> Superblock(m, f, l, W(16), W(1), W(0), 0),
      blocks |-> <<>>] : m \in SbMagics, f \in SbFeatures, l \in SbLogs}

\* Files in direct blocks, for each block size: 100 bytes; three blocks less
\* seven bytes; twelve blocks less one byte.
DirectDisks ==
    UNION {{OneFile(Part, StdSb(L), L, RegFile(W(100), <<20>>, 0, 0), <<>>),
            OneFile(Part, StdSb(L), L,
                    RegFile(W(3 * 1024 * 2 ^ L - 7), Run(20, 3), 0, 0), <<>>),
            OneFile(Part, StdSb(L), L,
                    RegFile(W(12 * 1024 * 2 ^ L - 1), Run(20, 12), 0, 0), <<>>)}
           : L \in 0..2}

\* A file of twelve direct blocks and one full single-indirect block.
FullSingleDisks ==
    {OneFile(Part, StdSb(L), L,
             RegFile(W((12 + 256 * 2 ^ L) * 1024 * 2 ^ L), Run(20, 12), 40, 0),
             <<PtrRun(40, 100, 256 * 2 ^ L)>>) : L \in 0..2}

\* Files whose chains stop early or go on into the double-indirect block
\* (block size 1024): a hole among the direct pointers; a single-indirect
\* block with one pointer where two are needed; the same with the second
\* block behind the double-indirect pointer; a file of 12 + 256 + 2 blocks.
ChainDisks ==
    {OneFile(Part, StdSb(0), 0, RegFile(W(3 * 1024), <<20, 0, 22>>, 0, 0), <<>>),
     OneFile(Part, StdSb(0), 0, RegFile(W(14 * 1024), Run(20, 12), 40, 0),
             <<PtrList(40, <<W(100)>>)>>),
     OneFile(Part, StdSb(0), 0, RegFile(W(14 * 1024), Run(20, 12), 40, 41),
             <<PtrList(40, <<W(100)>>), PtrList(41, <<W(42)>>),
               PtrList(42, <<W(101)>>)>>),
     OneFile(Part, StdSb(0), 0, RegFile(W(270 * 1024), Run(20, 12), 40, 41),
             <<PtrRun(40, 100, 256), PtrList(41, <<W(42)>>),
               PtrRun(42, 400, 2)>>)}

\* Pointer blocks with a zero pointer before a pointer that is not zero
\* (block size 1024): in the single-indirect block of a file of 15 blocks;
\* in the double-indirect block and in the pointer block it names first, of
\* a file of 16 blocks without a single-indirect block.
SparseDisks ==
    {OneFile(Part, StdSb(0), 0, RegFile(W(15 * 1024), Run(20, 12), 40, 0),
             <<PtrList(40, <<W(100), W(0), W(101)>>)>>),
     OneFile(Part, StdSb(0), 0, RegFile(W(16 * 1024), Run(20, 12), 0, 41),
             <<PtrList(41, <<W(42), W(0), W(43)>>),
               PtrList(42, <<W(400), W(0), W(401)>>),
               PtrList(43, <<W(500)>>)>>)}

\* Directories with a zero pointer before a pointer that is not zero: the
\* root's direct pointers are 10, 0, 11 and "k" is in block 11; the root's
\* single-indirect block holds 0, 12 and "k" is in block 12.
SparseDirDisks ==
    {Disk(Part, StdSb(0), 0, Dir(<<10, 0, 11>>, 0), RegFile(W(3), <<20>>, 0, 0),
          ZeroInode, ZeroInode,
          <<DirBlock(10, <<Named(0, 9, <<"x">>)>>),
            DirBlock(11, <<Named(0, 3, <<"k">>)>>)>>),
     Disk(Part, StdSb(0), 0, Dir(<<10>>, 40), RegFile(W(3), <<20>>, 0, 0),
          ZeroInode, ZeroInode,
          <<DirBlock(10, <<Named(0, 9, <<"x">>)>>),
            PtrList(40, <<W(0), W(12)>>),
            DirBlock(12, <<Named(0, 3, <<"k">>)>>)>>)}

\* A partition that ends past sector 2^28: its blocks 0..29 lie below 2^28,
\* the file's block 30 is the sector pair at 2^28.
HighPart == <<4095, 65476>>
HighDisks ==
    {OneFile(HighPart, StdSb(0), 0, RegFile(W(100), <<30>>, 0, 0), <<>>)}

\* Directories (block size 1024).  "k" names inode 3 in the block with the
\* damaged entry, inode 4 in the next direct block and inode 5 in the block
\* behind the single-indirect pointer; the three are files of 3, 4 and 5
\* bytes.  The damaged entry has a name longer than its record (BadName), a
\* record shorter than a header (ShortRec) or one running past the block
\* (LongRec).
BadName == DirEntry(0, W(9), 16, 20, <<"x">>, TRUE)
ShortRec == DirEntry(0, W(9), 4, 1, <<"x">>, TRUE)
LongRec == DirEntry(0, W(9), 2048, 1, <<"x">>, TRUE)
Damaged == {BadName, ShortRec, LongRec}
DirDisk(first, second, third) ==
    Disk(Part, StdSb(0), 0, Dir(<<10, 11>>, 40),
         RegFile(W(3), <<20>>, 0, 0), RegFile(W(4), <<21>>, 0, 0),
         RegFile(W(5), <<22>>, 0, 0),
         <<DirBlock(10, first), DirBlock(11, second), PtrList(40, <<W(12)>>),
           DirBlock(12, third)>>)
Other == <<Named(0, 9, <<"x">>)>>
DirDisks ==
    UNION {{DirDisk(<<d, Named(16, 3, <<"k">>)>>, Other, Other),
            DirDisk(<<d, Named(16, 9, <<"y">>)>>, <<Named(0, 4, <<"k">>)>>, Other),
            DirDisk(<<d, Named(16, 9, <<"y">>)>>, Other, <<Named(0, 5, <<"k">>)>>)}
           : d \in Damaged}

\* A directory below the root: "/b/k" is inode 3 by way of inode 4.
NestedDisks ==
    {Disk(Part, StdSb(0), 0, Dir(<<10>>, 0), RegFile(W(100), <<20>>, 0, 0),
          Dir(<<11>>, 0), ZeroInode,
          <<DirBlock(10, <<Named(0, 4, <<"b">>)>>),
            DirBlock(11, <<Named(0, 3, <<"k">>)>>)>>)}

\* Disks whose numbers are not those of a file system: no inodes per group;
\* the last block as first data block; the last block as a file's block.
MaxWord == <<65535, 65535>>
HostileDisks ==
    {OneFile(Part, Superblock(EXT_MAGIC, W(0), W(0), W(0), W(1), W(0), 0), 0,
             RegFile(W(100), <<20>>, 0, 0), <<>>),
     OneFile(Part, Superblock(EXT_MAGIC, W(0), W(0), W(16), MaxWord, W(0), 0), 0,
             RegFile(W(100), <<20>>, 0, 0), <<>>),
     OneFile(Part, StdSb(0), 0,
             Inode(EXT2_S_IFREG, W(100), [k \in 1..15 |-> IF k = 1 THEN MaxWord ELSE W(0)]),
             <<>>)}

FileDisks == DirectDisks \cup FullSingleDisks \cup ChainDisks \cup HighDisks
             \cup DirDisks \cup NestedDisks \cup HostileDisks
             \cup SparseDisks \cup SparseDirDisks

Paths == {<<"/", "k">>, <<"/", "b", "/", "k">>, <<"k">>, <<"/">>, <<"/", "z">>,
          <<"/", "k", "/", "k">>, <<"/", "k", "/", "k", "/", "k">>}

\* Partition bases init_with_lba is called with: 0, the partition's start,
\* and the start plus 2^28.
Bases == {W(0), image.part, AddWrap(image.part, TwoTo28)}

\* The paths that go on below "/k" are tried where "k" has at most 16 blocks.
PathsOn(img) ==
    IF img \in FullSingleDisks \cup ChainDisks
    THEN {path \in Paths : Len(path) <= 2 \/ path[2] # "k"}
    ELSE Paths

NextExt ==
    \/ \E lba_base \in Bases : init_with_lba(lba_base)
    \/ \E path \in PathsOn(image) : read_file(path)
    \/ read_direct
    \/ read_single_indirect
    \/ read_single_block
    \/ read_double_indirect
    \/ read_double_outer
    \/ read_double_block
    \/ read_inode_data_end

----------------------------------------------------------------------------
(* Partition table reader (src/boot/mbr.rs)                                 *)

MBR_BYTES == 512
PARTITION_TABLE_OFFSET == 446
PARTITION_ENTRY_COUNT == 4
RAW_ENTRY_BYTES == 16           \* size_of::<RawPartitionEntry>()
MBR_SIGNATURE == <<0, 43605>>   \* 0xAA55

\* The bytes taken most significant first (u32::from_be_bytes).
to_u32_be(b) == <<b[1] * 256 + b[2], b[3] * 256 + b[4]>>

\* u32::from_le_bytes([b[0], b[1], b[2], b[3]]) of a 4-byte sequence.
to_u32(b) == <<b[4] * 256 + b[3], b[2] * 256 + b[1]>>

\* &buf[o .. o + n] of a byte buffer held as a 1-based sequence.
Slice(buf, o, n) == [k \in 1..n |-> buf[o + k]]

NoEntry == [some |-> FALSE, bootable |-> FALSE, partition_type |-> 0,
            starting_lba |-> W(0), sectors |-> W(0)]

PartitionEntry(bootable, type, lba, sectors) ==
    [some |-> TRUE, bootable |-> bootable, partition_type |-> type,
     starting_lba |-> lba, sectors |-> sectors]

\* has_valid_signature
has_valid_signature(buf) ==
    IF Len(buf) < MBR_BYTES THEN FALSE
    ELSE <<0, buf[MBR_BYTES] * 256 + buf[MBR_BYTES - 1]>> = MBR_SIGNATURE

\* One turn of the loop of parse_partitions: slot i of `out`.
parse_entry(buf, i) ==
    LET o == PARTITION_TABLE_OFFSET + i * RAW_ENTRY_BYTES
        entry == Slice(buf, o, RAW_ENTRY_BYTES)
        boot_indicator == entry[1]
        partition_type == entry[5]
        starting_lba == to_u32(Slice(entry, 8, 4))
        sectors == to_u32(Slice(entry, 12, 4))
    IN  IF partition_type # 0 /\ sectors # W(0)
        THEN PartitionEntry(boot_indicator = 128, partition_type,
                            starting_lba, sectors)
        ELSE NoEntry

\* parse_partitions: the loop from slot i on; it breaks at the first entry
\* that does not lie inside the buffer.
RECURSIVE parse_from(_, _, _)
parse_from(buf, i, out) ==
    IF i >= PARTITION_ENTRY_COUNT THEN out
    ELSE IF PARTITION_TABLE_OFFSET + i * RAW_ENTRY_BYTES + RAW_ENTRY_BYTES > Len(buf)
    THEN out
    ELSE parse_from(buf, i + 1, [out EXCEPT ![i] = parse_entry(buf, i)])

parse_partitions(buf) ==
    parse_from(buf, 0, [i \in 0..(PARTITION_ENTRY_COUNT - 1) |-> NoEntry])

NoResult == [called |-> FALSE, some |-> FALSE, idx |-> 0, pe |-> NoEntry]
Found(idx, pe) == [called |-> TRUE, some |-> TRUE, idx |-> idx, pe |-> pe]
NotFound == [called |-> TRUE, some |-> FALSE, idx |-> 0, pe |-> NoEntry]

\* The loop of first_present_partition from slot idx on.
RECURSIVE first_present_from(_, _)
first_present_from(partitions, idx) ==
    IF idx >= PARTITION_ENTRY_COUNT THEN NotFound
    ELSE IF partitions[idx].some THEN Found(idx, partitions[idx])
    ELSE first_present_from(partitions, idx + 1)

first_present_partition(i) == first_present_from(i.partitions, 0)

\* The loop of find_active_partition from slot idx on.
RECURSIVE find_active_from(_, _)
find_active_from(partitions, idx) ==
    IF idx >= PARTITION_ENTRY_COUNT THEN NotFound
    ELSE IF partitions[idx].some /\ partitions[idx].bootable
    THEN Found(idx, partitions[idx])
    ELSE find_active_from(partitions, idx + 1)

\* find_active_partition without its test of the bootable flag.
find_active_no_flag(i) == first_present_from(i.partitions, 0)

find_active_partition(i) == find_active_from(i.partitions, 0)

NoInfo == [signature_valid |-> FALSE,
           partitions |-> [i \in 0..(PARTITION_ENTRY_COUNT - 1) |-> NoEntry]]

\* The reader is not in use.
MbrIdle ==
    /\ mbr = <<>>
    /\ mbr_pc = "idle"
    /\ info = NoInfo
    /\ active = NoResult
    /\ first_present = NoResult

\* Raw 16-byte entries a sector is built from:
\* boot_indicator, CHS x3, type, CHS x3, starting LBA (LE), sectors (LE).
RawEmpty == <<0, 0, 0, 0, 0, 0, 0, 0, 0, 0, 0, 0, 0, 0, 0, 0>>
RawBootLinux == <<128, 32, 33, 0, 131, 254, 255, 255, 0, 8, 0, 0, 0, 0, 16, 0>>
RawDataFat == <<0, 1, 1, 0, 12, 254, 255, 255, 1, 2, 3, 4, 255, 255, 255, 255>>
RawOddFlag == <<129, 0, 0, 0, 131, 0, 0, 0, 0, 0, 0, 128, 0, 0, 0, 1>>
RawTypeZero == <<128, 0, 0, 0, 0, 0, 0, 0, 0, 8, 0, 0, 0, 0, 16, 0>>
RawNoSectors == <<128, 0, 0, 0, 131, 0, 0, 0, 0, 8, 0, 0, 0, 0, 0, 0>>
RawEntries == {RawEmpty, RawBootLinux, RawDataFat, RawOddFlag, RawTypeZero,
               RawNoSectors}
Signatures == {<<85, 170>>, <<0, 0>>}

\* The sector with raw entries e[0..3] and the two signature bytes sig.
Sector(e, sig) ==
    [o1 \in 1..MBR_BYTES |->
        LET o == o1 - 1 IN
        IF o < PARTITION_TABLE_OFFSET THEN 0
        ELSE IF o < MBR_BYTES - 2
        THEN e[(o - PARTITION_TABLE_OFFSET) \div RAW_ENTRY_BYTES]
              [((o - PARTITION_TABLE_OFFSET) % RAW_ENTRY_BYTES) + 1]
        ELSE sig[o - (MBR_BYTES - 2) + 1]]

\* read_mbr_sector has filled the buffer with the disk's sector 0.
MbrRead ==
    /\ \E e \in [0..(PARTITION_ENTRY_COUNT - 1) -> RawEntries], sig \in Signatures :
           mbr = Sector(e, sig)
    /\ mbr_pc = "read"
    /\ info = NoInfo
    /\ active = NoResult
    /\ first_present = NoResult

\* probe, after its read of the sector.
probe ==
    /\ mbr_pc = "read"
    /\ info' = [signature_valid |-> has_valid_signature(mbr),
                partitions |-> parse_partitions(mbr)]
    /\ mbr_pc' = "probed"
    /\ UNCHANGED <<mbr, active, first_present, mem_vars, disk_vars, ext_vars, ldr_vars>>

find_active_partition_call ==
    /\ mbr_pc = "probed"
    /\ ~active.called
    /\ active' = find_active_partition(info)
    /\ UNCHANGED <<mbr, mbr_pc, info, first_present, mem_vars, disk_vars, ext_vars, ldr_vars>>

first_present_partition_call ==
    /\ mbr_pc = "probed"
    /\ ~first_present.called
    /\ first_present' = first_present_partition(info)
    /\ UNCHANGED <<mbr, mbr_pc, info, active, mem_vars, disk_vars, ext_vars, ldr_vars>>

\* No memory manager has been constructed.
MemIdle ==
    /\ overflow_checks = FALSE
    /\ crashed = FALSE
    /\ regions = <<>>
    /\ heap_start = W(0)
    /\ heap_current = W(0)
    /\ heap_end = W(0)
    /\ allocated_bytes = W(0)
    /\ mm_ret = NoCall
    /\ hist = <<>>
    /\ ops = 0

NextMbr == probe \/ find_active_partition_call \/ first_present_partition_call

InitMbr == MbrRead /\ MemIdle /\ DiskIdle /\ ExtIdle /\ LoaderIdle

SpecMbr == InitMbr /\ [][NextMbr]_vars

InitDisk == DiskIdle /\ MemIdle /\ MbrIdle /\ ExtIdle /\ LoaderIdle

SpecDisk == InitDisk /\ [][NextDisk]_vars

\* The driver's own steps: straight-line code between the polls.
DriverStep ==
    \/ select_drive \/ write_seccount \/ write_lba0 \/ write_lba1 \/ write_lba2
    \/ issue_read \/ dummy_reads \/ read_data

\* A poll the device answers: the status read ends the polling loop.
poll_bsy_answered ==
    \E s \in StatusValues :
        wait_bsy_clear(s) # "again" /\ status_read("bsy", "drq", s, wait_bsy_clear(s))
poll_drq_answered ==
    \E s \in StatusValues :
        wait_drq_set(s) # "again" /\ status_read("drq", "data", s, wait_drq_set(s))

\* Calls whose polls are followed status by status: no sector, one sector,
\* one command of two sectors, two commands.
LiveCounts == {0, 1, 2, 257}

NextDiskLive ==
    \/ \E count \in LiveCounts :
           read_sectors(W(0), count, count * SECTOR_BYTES)
    \/ DriverStep
    \/ poll_bsy
    \/ poll_drq

\* read_sectors on a processor that keeps running it and a device that
\* answers every polling loop in the end.
SpecDiskLive ==
    /\ InitDisk /\ [][NextDiskLive]_vars
    /\ WF_vars(DriverStep)
    /\ WF_vars(poll_bsy_answered)
    /\ WF_vars(poll_drq_answered)

\* No manager has been constructed; the build is of either profile.
NoManager ==
    /\ overflow_checks \in BOOLEAN
    /\ crashed = FALSE
    /\ regions = <<>>
    /\ heap_start = W(0)
    /\ heap_current = W(0)
    /\ heap_end = W(0)
    /\ allocated_bytes = W(0)
    /\ mm_ret = NoCall
    /\ hist = <<>>
    /\ ops = 0

\* The reader before init, on one of the disks.
ExtBoot ==
    /\ image \in SbDisks \cup FileDisks
    /\ fs = NoFs
    /\ fs_ret = NoFsCall
    /\ fs_reads = <<>>
    /\ rf_pc = "idle"
    /\ rf = NoLocals
    /\ rf_buf = NewFileBuffer

InitExt == ExtBoot /\ NoManager /\ MbrIdle /\ DiskIdle /\ LoaderIdle

SpecExt == InitExt /\ [][NextExt]_vars

\* Disks for get_inode by itself.  The inode number n is the regular file of
\* n bytes.  Block size 4096 with 8192 inodes per group, tables at blocks 40
\* and 50; block size 1024 with 16 inodes of 256 bytes per group, tables at
\* blocks 5 and 9; block size 1024 with one inode per group, so that group
\* 33 has its descriptor in the second block of the table; and numbers that
\* are not those of a file system: no inodes per group, the last block as
\* first data block, the last block as inode table.
Numbered(off, n) == [off |-> off, inode |-> RegFile(W(n), <<>>, 0, 0)]
Table(part, spb, n, inodes) == Place(part, spb, Block(W(n), <<>>, inodes, <<>>, <<>>, W(0), 0))
Gdt(part, spb, n, tables) == Place(part, spb, Block(W(n), tables, <<>>, <<>>, <<>>, W(0), 0))
InodeDisks ==
    {[part |-> Part, sb |-> Superblock(EXT_MAGIC, W(0), W(2), W(8192), W(0), W(0), 0),
      blocks |-> <<Gdt(Part, 8, 1, <<W(40), W(50)>>),
                   Table(Part, 8, 40, <<Numbered(0, 1), Numbered(128, 2)>>),
                   Table(Part, 8, 41, <<Numbered(0, 33), Numbered(128, 34)>>),
                   Table(Part, 8, 50, <<Numbered(0, 8193)>>)>>],
     [part |-> Part, sb |-> Superblock(EXT_MAGIC, W(0), W(0), W(16), W(1), W(1), 256),
      blocks |-> <<Gdt(Part, 2, 2, <<W(5), W(9)>>),
                   Table(Part, 2, 5, <<Numbered(0, 1), Numbered(256, 2)>>),
                   Table(Part, 2, 6, <<Numbered(512, 7)>>),
                   Table(Part, 2, 9, <<Numbered(0, 17), Numbered(512, 19)>>)>>],
     [part |-> Part, sb |-> Superblock(EXT_MAGIC, W(0), W(0), W(1), W(1), W(0), 0),
      blocks |-> <<Gdt(Part, 2, 2, <<W(60), W(61)>>),
                   Gdt(Part, 2, 3, <<W(70), W(71)>>),
                   Table(Part, 2, 60, <<Numbered(0, 1)>>),
                   Table(Part, 2, 61, <<Numbered(0, 2)>>),
                   Table(Part, 2, 71, <<Numbered(0, 34)>>)>>],
     [part |-> Part, sb |-> Superblock(EXT_MAGIC, W(0), W(0), W(0), W(1), W(0), 0),
      blocks |-> <<Gdt(Part, 2, 2, <<W(5)>>),
                   Table(Part, 2, 5, <<Numbered(128, 2)>>)>>],
     [part |-> Part, sb |-> Superblock(EXT_MAGIC, W(0), W(0), W(16), MaxWord, W(0), 0),
      blocks |-> <<Gdt(Part, 2, 0, <<W(5)>>),
                   Table(Part, 2, 5, <<Numbered(128, 2)>>)>>],
     [part |-> Part, sb |-> Superblock(EXT_MAGIC, W(0), W(0), W(16), W(1), W(0), 0),
      blocks |-> <<Gdt(Part, 2, 2, <<MaxWord>>),
                   Table(Part, 2, 0, <<Numbered(128, 10)>>)>>]}

InodeNums == {W(0), W(1), W(2), W(7), W(10), W(19), W(34), W(8193)}

NextInode ==
    \/ \E lba_base \in Bases : init_with_lba(lba_base)
    \/ \E n \in InodeNums : get_inode_call(n)

InodeBoot ==
    /\ image \in InodeDisks
    /\ fs = NoFs
    /\ fs_ret = NoFsCall
    /\ fs_reads = <<>>
    /\ rf_pc = "idle"
    /\ rf = NoLocals
    /\ rf_buf = NewFileBuffer

InitInode == InodeBoot /\ NoManager /\ MbrIdle /\ DiskIdle /\ LoaderIdle

SpecInode == InitInode /\ [][NextInode]_vars

----------------------------------------------------------------------------
(* Memory manager: the calls as actions                                     *)

MaxOps == 3

\* Request sizes: zero, small unaligned and aligned ones, the whole heap, one
\* byte more than half of it, and two sizes within 16 bytes of 2^32.
HeapBytes == SubWrap(MEMORY_END, MEMORY_START)
NearMax6 == <<65535, 65530>>     \* 0xFFFFFFFA
NearMax16 == <<65535, 65520>>    \* 0xFFFFFFF0
AllocSizes == {W(0), W(1), W(8), W(13), HeapBytes, NearMax6, NearMax16}

Event(ev, ptr, size) == [ev |-> ev, ptr |-> ptr, size |-> size]

\* A call `op(a, b)` with outcome o; ev names the event a success records.
Apply(op, a, b, o, ev, size) ==
    /\ ~crashed
    /\ ops < MaxOps
    /\ ops' = ops + 1
    /\ mm_ret' = Call(op, a, b, o.kind, o.val)
    /\ heap_current' = o.hc
    /\ heap_end' = o.he
    /\ allocated_bytes' = o.ab
    /\ regions' = o.rs
    /\ hist' = IF ev # "" /\ o.kind \in {"Some", "Ok", "unit"}
               THEN Append(hist, Event(ev, IF o.kind = "Ok" THEN a ELSE o.val, size))
               ELSE hist
    /\ IF o.kind = "panic" THEN crashed' = TRUE
       ELSE IF o.wild THEN crashed' \in BOOLEAN
       ELSE crashed' = FALSE
    /\ UNCHANGED <<overflow_checks, heap_start, mbr_vars, disk_vars, ext_vars,
                   ldr_vars>>

allocate(size) ==
    Apply("allocate", size, W(0), allocate_outcome(size), "alloc", size)

allocate_aligned(size, alignment) ==
    Apply("allocate_aligned", size, alignment,
          allocate_aligned_outcome(size, alignment), "alloc_aligned", size)

allocate_pages(page_count) ==
    Apply("allocate_pages", page_count, W(0), allocate_pages_outcome(page_count),
          "alloc_aligned", MulWrap(page_count, PAGE_SIZE))

\* A reservation inside the free window [heap_current, heap_end) is recorded
\* as "reserve", any other successful one as "reserve_outside".
reserve_region(start, size) ==
    Apply("reserve_region", start, size, reserve_region_outcome(start, size),
          IF Le(heap_current, start) /\ Lt(start, heap_end)
          THEN "reserve" ELSE "reserve_outside", size)

find_kernel_location(kernel_size) ==
    Apply("find_kernel_location", kernel_size, W(0),
          find_kernel_location_outcome(kernel_size), "", W(0))

mark_kernel_loaded(start, size) ==
    Apply("mark_kernel_loaded", start, size,
          mark_kernel_loaded_outcome(start, size), "", W(0))

deallocate(ptr, size) ==
    Apply("deallocate", ptr, size, deallocate_outcome(ptr, size), "", W(0))

reset == Apply("reset", W(0), W(0), reset_outcome, "reset", W(0))

\* MemoryManager::new, in a build of either profile.
InitManager ==
    /\ overflow_checks \in BOOLEAN
    /\ crashed = FALSE
    /\ regions = detect_memory
    /\ heap_start = MEMORY_START
    /\ heap_current = MEMORY_START
    /\ heap_end = MEMORY_END
    /\ allocated_bytes = W(0)
    /\ mm_ret = NoCall
    /\ hist = <<>>
    /\ ops = 0

InitMem == InitManager /\ MbrIdle /\ DiskIdle /\ ExtIdle /\ LoaderIdle

\* Only allocate is called.
NextAllocate == \E size \in AllocSizes : allocate(size)

SpecAllocate == InitMem /\ [][NextAllocate]_vars

\* Arguments of the other calls.  Alignments: none, not a power of two, a
\* power of two, and 2^31; reservations: inside the free window, at the
\* start of the heap, at the start of the heap with a size that passes
\* 2^32, and above the heap.
TwoTo31 == <<32768, 0>>
AlignedArgs == {<<W(16), W(0)>>, <<W(16), W(3)>>, <<W(16), W(4096)>>,
                <<<<32768, 8>>, TwoTo31>>}
PageCounts == {W(0), W(1), W(1048576)}
ReserveArgs == {<<W(4194304), W(4096)>>, <<MEMORY_START, W(16)>>,
                <<MEMORY_START, <<65535, 65535>>>>, <<W(9437184), W(4096)>>}
KernelSizes == {W(4096), W(6291456), HeapBytes, W(7340033), <<65504, 0>>}
MemSizes == {W(0), W(8), W(13), HeapBytes, NearMax6, NearMax16}

NextMem ==
    \/ \E size \in MemSizes : allocate(size)
    \/ \E sa \in AlignedArgs : allocate_aligned(sa[1], sa[2])
    \/ \E n \in PageCounts : allocate_pages(n)
    \/ \E r \in ReserveArgs : reserve_region(r[1], r[2])
    \/ \E k \in KernelSizes : find_kernel_location(k)
    \/ mark_kernel_loaded(KERNEL_LOAD_ADDR, W(4096))
    \/ deallocate(MEMORY_START, W(8))
    \/ reset

SpecMem == InitMem /\ [][NextMem]_vars

----------------------------------------------------------------------------
(* Global memory manager (src/memory/mod.rs) and kernel loader              *)
(* (src/kernel/loader.rs)                                                   *)

ELF_HEADER_BYTES == 52
PH_BYTES == 32
PT_LOAD == 1
ELF_MAGIC == <<127, 69, 76, 70>>       \* b"\x7fELF"

\* The file read (data: &[u8]) by the fields the loader takes from it: len
\* is data.len(), ident the bytes 0..4, class byte 4, data byte 5, entry the
\* word at 24, ph_offset the word at 28, ph_size and ph_count the half-words
\* at 42 and 44, and phs the program headers by the byte they start at.
Elf(len, ident, class, data, entry, ph_offset, ph_size, ph_count, phs) ==
    [len |-> len, ident |-> ident, class |-> class, data |-> data,
     entry |-> entry, ph_offset |-> ph_offset, ph_size |-> ph_size,
     ph_count |-> ph_count, phs |-> phs]

\* A program header: the words at +0, +4, +8, +16 and +20.
Ph(base, type, offset, vaddr, file_size, mem_size) ==
    [base |-> base, type |-> type, offset |-> offset, vaddr |-> vaddr,
     file_size |-> file_size, mem_size |-> mem_size]

\* The words read at data[ph_base ..]; bytes that are no listed header read
\* as a header of type 0.
HeaderAt(elf, ph_base) ==
    LET at == {k \in 1..Len(elf.phs) : elf.phs[k].base = ph_base}
    IN  IF at = {} THEN Ph(ph_base, W(0), W(0), W(0), W(0), W(0))
        ELSE elf.phs[CHOOSE k \in at : TRUE]

\* memcpy(dest, data.as_ptr().add(src), n) and memset(dest, 0, n)
Copy(dest, src, n) == [op |-> "memcpy", dest |-> dest, src |-> src, n |-> n]
Zero(dest, n) == [op |-> "memset", dest |-> dest, src |-> W(0), n |-> n]

\* The result of parse_and_load_elf: kind "Ok", "Err" or "panic", the entry
\* point, the writes made, and the number of the first write that read or
\* wrote through a pointer taken past the end of the address space or of the
\* file (ub, 0 for none).
Loaded(kind, msg, entry, ws, ub) ==
    [kind |-> kind, msg |-> msg, entry |-> entry, ws |-> ws, ub |-> ub]

\* One PT_LOAD header: the copy and the zero fill.
load_segment(elf, h, ws, ub) ==
    IF overflow_checks /\ AddOverflows(h.offset, h.file_size)
    THEN Loaded("panic", "attempt to add with overflow", W(0), ws, ub)
    ELSE IF Lt(W(elf.len), AddWrap(h.offset, h.file_size))
    THEN Loaded("Ok", "", W(0), ws, ub)
    ELSE
      LET copied == Append(ws, Copy(h.vaddr, h.offset, h.file_size))
          ub1 == IF ub # 0 THEN ub
                 ELSE IF \/ h.file_size # W(0) /\ AddOverflows(h.offset, h.file_size)
                         \/ MemsetWild(h.vaddr, h.file_size)
                 THEN Len(copied) ELSE 0
      IN  IF ~Lt(h.file_size, h.mem_size) THEN Loaded("Ok", "", W(0), copied, ub1)
          ELSE IF overflow_checks /\ AddOverflows(h.vaddr, h.file_size)
          THEN Loaded("panic", "attempt to add with overflow", W(0), copied, ub1)
          ELSE Loaded("Ok", "", W(0),
                      Append(copied, Zero(AddWrap(h.vaddr, h.file_size),
                                          SubWrap(h.mem_size, h.file_size))),
                      IF ub1 # 0 THEN ub1
                      ELSE IF MemsetWild(AddWrap(h.vaddr, h.file_size),
                                         SubWrap(h.mem_size, h.file_size))
                      THEN Len(copied) + 1 ELSE 0)

\* The loop over the program headers, from header i on.
RECURSIVE load_segments(_, _, _, _)
load_segments(elf, i, ws, ub) ==
    IF i >= elf.ph_count THEN Loaded("Ok", "", elf.entry, ws, ub)
    ELSE IF overflow_checks /\ AddOverflows(elf.ph_offset, MulWrap(W(elf.ph_size), i))
    THEN Loaded("panic", "attempt to add with overflow", W(0), ws, ub)
    ELSE
      LET ph_base == AddWrap(elf.ph_offset, MulWrap(W(elf.ph_size), i))
          after(r) == IF r.kind # "Ok" THEN r
                      ELSE load_segments(elf, i + 1, r.ws, r.ub)
      IN  IF overflow_checks /\ AddOverflows(ph_base, W(PH_BYTES))
          THEN Loaded("panic", "attempt to add with overflow", W(0), ws, ub)
          ELSE IF Lt(W(elf.len), AddWrap(ph_base, W(PH_BYTES)))
          THEN load_segments(elf, i + 1, ws, ub)
          ELSE IF ~Lt(ph_base, W(elf.len))
          THEN Loaded("panic", "index out of bounds", W(0), ws, ub)
          ELSE IF HeaderAt(elf, ph_base[1] * Half + ph_base[2]).type # W(PT_LOAD)
          THEN load_segments(elf, i + 1, ws, ub)
          ELSE after(load_segment(elf, HeaderAt(elf, ph_base[1] * Half + ph_base[2]),
                                  ws, ub))

\* parse_and_load_elf(data, load_addr)
parse_and_load_elf(elf, load_addr) ==
    IF elf.len < ELF_HEADER_BYTES THEN Loaded("Err", "Invalid ELF file", W(0), <<>>, 0)
    ELSE IF elf.ident # ELF_MAGIC THEN Loaded("Err", "Not an ELF file", W(0), <<>>, 0)
    ELSE IF elf.class # 1 THEN Loaded("Err", "Only 32-bit ELF supported", W(0), <<>>, 0)
    ELSE IF elf.data # 1
    THEN Loaded("Err", "Only little-endian ELF supported", W(0), <<>>, 0)
    ELSE load_segments(elf, 0, <<>>, 0)

\* The result of a call of memory::* or of the loader.
LdrCall(op, arg, kind, msg, val) ==
    [op |-> op, arg |-> arg, kind |-> kind, msg |-> msg, val |-> val]

\* The manager's fields after a call with outcome o; a trap ends the run.
Store(o) ==
    /\ heap_current' = o.hc
    /\ heap_end' = o.he
    /\ allocated_bytes' = o.ab
    /\ regions' = o.rs
    /\ crashed' = (o.kind = "panic")
    /\ UNCHANGED <<overflow_checks, heap_start, mm_ret, hist>>

\* memory::init(): init_global_manager stores a new manager.
memory_init ==
    /\ ~crashed /\ lk_pc = "idle"
    /\ manager_some' = TRUE
    /\ regions' = detect_memory
    /\ heap_start' = MEMORY_START
    /\ heap_current' = MEMORY_START
    /\ heap_end' = MEMORY_END
    /\ allocated_bytes' = W(0)
    /\ ldr_ret' = LdrCall("init", <<>>, "unit", "", W(0))
    /\ UNCHANGED <<overflow_checks, crashed, mm_ret, hist, ops, lk_pc, lk, writes,
                   mbr_vars, disk_vars, ext_vars, boot>>

\* memory::allocate_pages(count)
memory_allocate_pages(count) ==
    /\ ~crashed /\ lk_pc = "idle"
    /\ IF manager_some THEN allocate_pages(count)
       ELSE /\ ldr_ret' = LdrCall("allocate_pages", <<count>>, "Err", "Out of memory", W(0))
            /\ UNCHANGED <<mem_vars, manager_some, lk_pc, lk, writes, mbr_vars,
                           disk_vars, ext_vars, boot>>

\* get_global_manager()?.find_kernel_location(kernel_size)
find_kernel_address_outcome(kernel_size) ==
    IF manager_some THEN find_kernel_location_outcome(kernel_size)
    ELSE Unchanged("None", W(0))

\* reserve_region on the manager's fields, whether or not there is a manager.
reserve_unchecked_outcome(start, size) == reserve_region_outcome(start, size)

\* reserve_region(start, size)? then mark_kernel_loaded(start, size)
reserve_for_kernel_outcome(start, size) ==
    IF ~manager_some THEN Unchanged("NoManager", W(0))
    ELSE LET marked(r) ==
               IF r.kind # "Ok" THEN r
               ELSE [r EXCEPT !.rs = add_region(r.rs, Region(start, size, "Kernel"))]
         IN  marked(reserve_region_outcome(start, size))

\* The error a failed reserve_for_kernel returns.
reserve_error(kind) ==
    IF kind = "NoManager" THEN "Memory manager not initialized"
    ELSE IF kind = "Err" THEN "Cannot reserve region that conflicts with allocated memory"
    ELSE ""

\* memory::find_kernel_address(kernel_size)
find_kernel_address(kernel_size) ==
    /\ ~crashed /\ lk_pc = "idle"
    /\ ops < MaxOps
    /\ ops' = ops + 1
    /\ \E o \in {find_kernel_address_outcome(kernel_size)} :
         /\ Store(o)
         /\ ldr_ret' = LdrCall("find_kernel_address", <<kernel_size>>, o.kind, "", o.val)
    /\ UNCHANGED <<manager_some, lk_pc, lk, writes, mbr_vars, disk_vars, ext_vars, boot>>

\* memory::reserve_for_kernel(start, size)
reserve_for_kernel(start, size) ==
    /\ ~crashed /\ lk_pc = "idle"
    /\ ops < MaxOps
    /\ ops' = ops + 1
    /\ \E o \in {reserve_for_kernel_outcome(start, size)} :
         /\ Store(o)
         /\ ldr_ret' = LdrCall("reserve_for_kernel", <<start, size>>,
                               IF o.kind = "NoManager" THEN "Err" ELSE o.kind,
                               reserve_error(o.kind), W(0))
    /\ UNCHANGED <<manager_some, lk_pc, lk, writes, mbr_vars, disk_vars, ext_vars, boot>>

\* The result of load_kernel_from_path(path).
LoadResult(kind, msg, val) ==
    LdrCall("load_kernel_from_path", <<lk.elf>>, kind, msg, val)

\* load_kernel_from_path(path), its call of read_file: an error, or the file
\* read.
load_kernel_from_path(files) ==
    /\ ~crashed /\ lk_pc = "idle" /\ rf_pc = "idle"
    /\ ops < MaxOps
    /\ ops' = ops + 1
    /\ writes' = <<>>
    /\ \E read_ok \in BOOLEAN : \E elf \in files :
         IF read_ok
         THEN /\ lk' = [NoLoad EXCEPT !.elf = elf]
              /\ lk_pc' = "find"
              /\ ldr_ret' = LdrCall("load_kernel_from_path", <<elf>>, "running", "", W(0))
         ELSE /\ lk' = NoLoad
              /\ lk_pc' = "idle"
              /\ ldr_ret' = LdrCall("load_kernel_from_path", <<NoElf>>, "Err",
                                    "Failed to read kernel file", W(0))
    /\ UNCHANGED <<overflow_checks, crashed, regions, heap_start, heap_current,
                   heap_end, allocated_bytes, mm_ret, hist, manager_some,
                   mbr_vars, disk_vars, ext_vars, boot>>

\* Its call of memory::find_kernel_address(kernel_buffer.as_slice().len()).
lk_find_address ==
    /\ lk_pc = "find"
    /\ UNCHANGED ops
    /\ \E o \in {find_kernel_address_outcome(W(lk.elf.len))} :
         /\ Store(o)
         /\ IF o.kind = "Some"
            THEN /\ lk' = [lk EXCEPT !.load_addr = o.val]
                 /\ lk_pc' = "load"
                 /\ UNCHANGED ldr_ret
            ELSE /\ lk_pc' = "idle"
                 /\ ldr_ret' = LoadResult(IF o.kind = "panic" THEN "panic" ELSE "Err",
                                          "Cannot find suitable kernel load address",
                                          W(0))
                 /\ UNCHANGED lk
    /\ UNCHANGED <<manager_some, writes, mbr_vars, disk_vars, ext_vars, boot>>

\* Its call of parse_and_load_elf(kernel_buffer.as_slice(), kernel_load_addr).
\* A write through a pointer out of range may end the run there or go on.
lk_parse_and_load ==
    /\ lk_pc = "load"
    /\ \E r \in {parse_and_load_elf(lk.elf, lk.load_addr)} :
       \E fault \in {FALSE, r.ub # 0} :
         /\ writes' = IF fault THEN SubSeq(r.ws, 1, r.ub) ELSE r.ws
         /\ crashed' = (r.kind = "panic" \/ fault)
         /\ IF r.kind = "Ok" /\ ~fault
            THEN /\ lk' = [lk EXCEPT !.entry = r.entry]
                 /\ lk_pc' = "reserve"
                 /\ UNCHANGED ldr_ret
            ELSE /\ lk_pc' = "idle"
                 /\ ldr_ret' = LoadResult(IF fault THEN "panic" ELSE r.kind, r.msg, W(0))
                 /\ UNCHANGED lk
    /\ UNCHANGED <<overflow_checks, regions, heap_start, heap_current, heap_end,
                   allocated_bytes, mm_ret, hist, ops, manager_some, mbr_vars,
                   disk_vars, ext_vars, boot>>

\* Its call of memory::reserve_for_kernel(kernel_load_addr, len), and the
\* return of the entry point.
lk_reserve ==
    /\ lk_pc = "reserve"
    /\ UNCHANGED ops
    /\ \E o \in {reserve_for_kernel_outcome(lk.load_addr, W(lk.elf.len))} :
         /\ Store(o)
         /\ ldr_ret' = IF o.kind = "Ok" THEN LoadResult("Ok", "", lk.entry)
                       ELSE LoadResult(IF o.kind = "panic" THEN "panic" ELSE "Err",
                                       reserve_error(o.kind), W(0))
    /\ lk_pc' = "idle"
    /\ UNCHANGED <<manager_some, lk, writes, mbr_vars, disk_vars, ext_vars, boot>>

----------------------------------------------------------------------------
(* Kernel loader: the files it is run on                                    *)

\* A 4096-byte file with a valid header, entry 0x100000, and the program
\* headers phs in a table of `count` entries of 32 bytes at `ph_offset`.
Kernel(ph_offset, count, phs) ==
    Elf(4096, ELF_MAGIC, 1, 1, W(1048576), ph_offset, PH_BYTES, count, phs)

\* The segment of 100 file bytes at offset 256 and 400 bytes of memory at
\* 0x100000.
Seg100 == Ph(52, W(PT_LOAD), W(256), W(1048576), W(100), W(400))

Elfs ==
    { \* one loadable segment
      Kernel(W(52), 1, <<Seg100>>),
      \* a note, then a segment without zero fill, then one that is all zero fill
      Kernel(W(52), 3, <<Ph(52, W(4), W(256), W(0), W(16), W(16)),
                         Ph(84, W(PT_LOAD), W(512), W(2097152), W(64), W(64)),
                         Ph(116, W(PT_LOAD), W(576), W(2101248), W(0), W(4096))>>),
      \* two segments loaded to the same address
      Kernel(W(52), 2, <<Seg100,
                         Ph(84, W(PT_LOAD), W(512), W(1048576), W(100), W(100))>>),
      \* a segment whose file range ends past the file, then Seg100's like
      Kernel(W(52), 2, <<Ph(52, W(PT_LOAD), W(4000), W(3145728), W(200), W(200)),
                         Ph(84, W(PT_LOAD), W(256), W(1048576), W(100), W(400))>>),
      \* a segment whose file offset plus size passes 2^32, then Seg100's like
      Kernel(W(52), 2, <<Ph(52, W(PT_LOAD), <<65535, 65535>>, W(3145728), W(2), W(2)),
                         Ph(84, W(PT_LOAD), W(256), W(1048576), W(100), W(400))>>),
      \* a segment at the top of the address space
      Kernel(W(52), 1, <<Ph(52, W(PT_LOAD), W(256), <<65535, 65520>>, W(100), W(400))>>),
      \* a header table that starts 16 bytes before 2^32
      Kernel(<<65535, 65520>>, 1, <<>>),
      \* a header table whose last entry ends past the file
      Kernel(W(4070), 1, <<Ph(4070, W(PT_LOAD), W(256), W(1048576), W(100), W(400))>>),
      \* no program headers
      Kernel(W(52), 0, <<>>),
      \* files the header checks refuse: 51 bytes; "\x7fELG"; class 2; data 2
      Elf(51, ELF_MAGIC, 1, 1, W(1048576), W(52), PH_BYTES, 0, <<>>),
      Elf(4096, <<127, 69, 76, 71>>, 1, 1, W(1048576), W(52), PH_BYTES, 1, <<Seg100>>),
      Elf(4096, ELF_MAGIC, 2, 1, W(1048576), W(52), PH_BYTES, 1, <<Seg100>>),
      Elf(4096, ELF_MAGIC, 1, 2, W(1048576), W(52), PH_BYTES, 1, <<Seg100>>),
      \* a file of exactly 52 bytes
      Elf(52, ELF_MAGIC, 1, 1, W(4660), W(0), 0, 0, <<>>) }

\* Pages allocated before a load: none beyond the first, and 513 (past the
\* usual load address).
LoaderPages == {W(1), W(513)}
LoaderSizes == {W(4096)}

NextLoader ==
    \/ memory_init
    \/ \E n \in LoaderPages : memory_allocate_pages(n)
    \/ \E k \in LoaderSizes : find_kernel_address(k)
    \/ \E k \in LoaderSizes : reserve_for_kernel(KERNEL_LOAD_ADDR, k)
    \/ load_kernel_from_path(Elfs)
    \/ lk_find_address
    \/ lk_parse_and_load
    \/ lk_reserve

InitLoader == NoManager /\ MbrIdle /\ DiskIdle /\ ExtIdle /\ LoaderIdle

SpecLoader == InitLoader /\ [][NextLoader]_vars

----------------------------------------------------------------------------
(* The statics of the reader and of the memory manager, from before their   *)
(* initialisation on                                                        *)

\* A disk with the 100-byte file "/k", and one without a file system.
StaticsDisks ==
    {OneFile(Part, StdSb(0), 0, RegFile(W(100), <<20>>, 0, 0), <<>>),
     [part |-> Part, sb |-> Superblock(61265, W(0), W(0), W(16), W(1), W(0), 0),
      blocks |-> <<>>]}

NextStatics ==
    \/ \E lba_base \in Bases : init_with_lba(lba_base)
    \/ \E path \in Paths : read_file(path)
    \/ read_direct
    \/ memory_init
    \/ \E k \in LoaderSizes : find_kernel_address(k)
    \/ \E k \in LoaderSizes : reserve_for_kernel(KERNEL_LOAD_ADDR, k)

StaticsBoot ==
    /\ image \in StaticsDisks
    /\ fs = NoFs
    /\ fs_ret = NoFsCall
    /\ fs_reads = <<>>
    /\ rf_pc = "idle"
    /\ rf = NoLocals
    /\ rf_buf = NewFileBuffer

InitStatics == StaticsBoot /\ NoManager /\ MbrIdle /\ DiskIdle /\ LoaderIdle

SpecStatics == InitStatics /\ [][NextStatics]_vars


----------------------------------------------------------------------------
(* Stage 2 (src/boot/stage2.rs): start() from power-on to the jump          *)

KERNEL_PATHS ==
    << <<"/", "b", "o", "o", "t", "/", "v", "m", "l", "i", "n", "u", "z">>,
       <<"/", "b", "o", "o", "t", "/", "k", "e", "r", "n", "e", "l">>,
       <<"/", "k", "e", "r", "n", "e", "l">>,
       <<"/", "b", "o", "o", "t", "/", "b", "z", "I", "m", "a", "g", "e">> >>

\* A disk whose root directory holds the 100-byte regular file "kernel".
KernelDisk ==
    Disk(Part, StdSb(0), 0, RootK, RegFile(W(100), <<20>>, 0, 0), ZeroInode, ZeroInode,
         <<DirBlock(10, <<Named(0, 3, <<"k", "e", "r", "n", "e", "l">>)>>)>>)

BootDisks == {KernelDisk} \cup StaticsDisks \cup DirectDisks \cup HostileDisks

\* drivers::disk::init() for a device that shows `status` after IDENTIFY,
\* ends the busy wait with s_bsy, holds lba1 and lba2 in its LBA registers
\* and ends the data-request wait with s_drq.
disk_init_outcome(status, s_bsy, lba1, lba2, s_drq) ==
    IF status = 0
    THEN [kind |-> "Err", msg |-> "ATA: no device on primary master"]
    ELSE IF wait_bsy_clear(s_bsy) = "err"
    THEN [kind |-> "Err", msg |-> IF BitSet(s_bsy, ATA_SR_ERR) THEN "ATA: wait BSY ERR"
                                  ELSE "ATA: wait BSY DF"]
    ELSE IF lba1 # 0 \/ lba2 # 0
    THEN [kind |-> "Err", msg |-> "ATA: not an ATA disk (ATAPI?)"]
    ELSE IF wait_drq_set(s_drq) = "err"
    THEN [kind |-> "Err", msg |-> IF BitSet(s_drq, ATA_SR_ERR) THEN "ATA: status Err"
                                  ELSE "ATA: device fault"]
    ELSE [kind |-> "Ok", msg |-> ""]

\* A call start() has made, and whether it returned success.
Called(op, ok) == [op |-> op, ok |-> ok]

\* start(): drivers::disk::init(); an error ends in panic_msg's hlt loop.
start_disk_init ==
    /\ boot.pc = "start"
    /\ regs' = [sel |-> 224, cnt |-> 0, lba0 |-> 0, lba1 |-> 0, lba2 |-> 0]
    /\ \E status \in {0} \cup StatusValues :
       \E s_bsy \in {s \in StatusValues : wait_bsy_clear(s) # "again"} :
       \E sig \in {<<0, 0>>, <<20, 235>>} :
       \E s_drq \in {s \in StatusValues : wait_drq_set(s) # "again"} :
       \E o \in {disk_init_outcome(status, s_bsy, sig[1], sig[2], s_drq)} :
         boot' = [boot EXCEPT !.pc = IF o.kind = "Ok" THEN "mount" ELSE "halted",
                              !.log = Append(@, Called("disk::init", o.kind = "Ok")),
                              !.msg = o.msg]
    /\ UNCHANGED <<rs_pc, rs_arg, rs_lba, rs_count, rs_off, rs_chunk, rs_i, buffer,
                   dev_cur, commands, words_read, err_seen, rs_seen, mem_vars,
                   mbr_vars, ext_vars, manager_some, ldr_ret, lk_pc, lk, writes>>

\* start(): try_mount_filesystems(), which returns Ok(()) and does nothing.
start_try_mount_filesystems ==
    /\ boot.pc = "mount"
    /\ boot' = [boot EXCEPT !.pc = "lookup", !.path = 1,
                            !.log = Append(@, Called("try_mount_filesystems", TRUE))]
    /\ UNCHANGED <<mem_vars, mbr_vars, disk_vars, ext_vars, manager_some, ldr_ret,
                   lk_pc, lk, writes>>

\* One turn of find_and_load_kernel's loop: load_kernel_from_path(path) with
\* its call of read_file and, once the file is read, of find_kernel_address.
\* After the last path find_and_load_kernel returns Err("No kernel found")
\* and start() halts in panic_msg; after a load start() jumps to the entry.
\* What follows a file that was found (read_inode_data, the ELF load, the
\* reservation) may succeed or fail.
find_and_load_kernel ==
    /\ boot.pc = "lookup"
    /\ \E fail_at \in FailAts :
       \E o \in {open_file(KERNEL_PATHS[boot.path], fail_at)} :
       \E read_ok \in {FALSE, o.kind = "Ok"} :
       \E a \in {find_kernel_address_outcome(o.val.size)} :
       \E loaded \in {FALSE, read_ok /\ a.kind = "Some"} :
         LET calls == <<Called("read_file", read_ok)>> \o
                      (IF read_ok THEN <<Called("find_kernel_address", a.kind = "Some")>>
                                  ELSE <<>>)
             kind == IF o.kind # "Ok" THEN o.kind ELSE IF read_ok THEN "Ok" ELSE "Err"
         IN  /\ fs_reads' = o.reads
             /\ fs_ret' = [op |-> "read_file", arg |-> <<KERNEL_PATHS[boot.path]>>,
                           kind |-> kind, msg |-> o.msg, sb |-> ZeroSuperblock,
                           read_ok |-> FALSE]
             /\ boot' =
                  IF o.kind = "panic"
                  THEN [boot EXCEPT !.pc = "halted", !.log = @ \o calls, !.msg = "panic"]
                  ELSE IF loaded
                  THEN [boot EXCEPT !.pc = "jumped",
                                    !.log = @ \o calls \o
                                            <<Called("find_and_load_kernel", TRUE)>>]
                  ELSE IF boot.path = Len(KERNEL_PATHS)
                  THEN [boot EXCEPT !.pc = "halted", !.msg = "No kernel found",
                                    !.log = @ \o calls \o
                                            <<Called("find_and_load_kernel", FALSE)>>]
                  ELSE [boot EXCEPT !.path = @ + 1, !.log = @ \o calls]
    /\ UNCHANGED <<image, fs, rf_pc, rf, rf_buf, mem_vars, mbr_vars, disk_vars,
                   manager_some, ldr_ret, lk_pc, lk, writes>>

NextBoot ==
    \/ start_disk_init
    \/ start_try_mount_filesystems
    \/ find_and_load_kernel

\* Power-on: start() is entered with every static at its initial value, on a
\* build of either profile, with any of the disks attached.
InitBoot ==
    /\ image \in BootDisks
    /\ fs = NoFs
    /\ fs_ret = NoFsCall
    /\ fs_reads = <<>>
    /\ rf_pc = "idle"
    /\ rf = NoLocals
    /\ rf_buf = NewFileBuffer
    /\ NoManager /\ MbrIdle /\ DiskIdle
    /\ boot = [NoBoot EXCEPT !.pc = "start"]
    /\ manager_some = FALSE
    /\ ldr_ret = NoLdrCall
    /\ lk_pc = "idle"
    /\ lk = NoLoad
    /\ writes = <<>>

SpecBoot == InitBoot /\ [][NextBoot]_vars

----------------------------------------------------------------------------
(* Exact (unbounded) arithmetic for stating the claims: the high half of a  *)
(* sum is not reduced, so a value of up to 2^47 is compared as it is.       *)

Sum(a, b) == <<a[1] + b[1] + ((a[2] + b[2]) \div Half), (a[2] + b[2]) % Half>>

\* n rounded up to a multiple of the power of two p (p < 2^16), exactly.
RoundUp(n, p) == ClearLow(Sum(n, W(p - 1)), W(p))

\* The range an event stands for: [ptr, End).
End(e) == IF e.ev = "alloc" THEN Sum(e.ptr, RoundUp(e.size, 8))
                            ELSE Sum(e.ptr, e.size)
Disjoint(e, f) == Le(End(e), f.ptr) \/ Le(End(f), e.ptr)
Intersects(s1, e1, s2, e2) == Lt(s1, e1) /\ Lt(s2, e2) /\ Lt(s1, e2) /\ Lt(s2, e1)

IsAlloc(e) == e.ev \in {"alloc", "alloc_aligned"}

RECURSIVE SumAligned(_, _)
SumAligned(h, i) ==
    IF i > Len(h) THEN W(0) ELSE Sum(RoundUp(h[i].size, 8), SumAligned(h, i + 1))

----------------------------------------------------------------------------
(* Claims about the memory manager                                          *)

\* C1: for any sequence of successful allocate calls on one manager (nothing
\* else interleaved), the returned ranges [ptr, ptr + size rounded up to 8)
\* are pairwise disjoint and the sum of the aligned sizes never exceeds
\* heap_end - heap_start.
C1_AllocateRangesDisjointAndBounded ==
    /\ \A i, j \in 1..Len(hist) : i < j => Disjoint(hist[i], hist[j])
    /\ Le(Sum(heap_start, SumAligned(hist, 1)), heap_end)

\* C2: reserve_region(start, size) returns an error whenever [start,
\* start + size) intersects the allocated span [heap_start, heap_current), and
\* then heap_end, heap_current and the catalogue are unchanged.
C2_ReserveRejectsAllocatedSpan ==
    (/\ mm_ret.op = "reserve_region"
     /\ Intersects(mm_ret.a, Sum(mm_ret.a, mm_ret.b), heap_start, mm_ret.pre_hc))
    => /\ mm_ret.res = "Err"
       /\ heap_end = mm_ret.pre_he
       /\ heap_current = mm_ret.pre_hc
       /\ regions = mm_ret.pre_regions

\* C3: after a successful reserve_region(start, size) with heap_current <=
\* start < heap_end, heap_end equals start and a Reserved region {start, size}
\* has been appended; no later successful allocate or allocate_aligned returns
\* a range that intersects [start, start + size).
C3_ReserveShrinksHeapAndProtects ==
    /\ (/\ mm_ret.op = "reserve_region"
        /\ mm_ret.res = "Ok"
        /\ Le(mm_ret.pre_hc, mm_ret.a)
        /\ Lt(mm_ret.a, mm_ret.pre_he))
       => /\ heap_end = mm_ret.a
          /\ regions = Append(mm_ret.pre_regions,
                              Region(mm_ret.a, mm_ret.b, "Reserved"))
    /\ \A i, j \in 1..Len(hist) :
           (i < j /\ hist[i].ev = "reserve" /\ IsAlloc(hist[j]))
           => ~Intersects(hist[i].ptr, End(hist[i]), hist[j].ptr, End(hist[j]))

\* C4: allocate(size), for a size other than zero, fails and leaves
\* heap_current and allocated_bytes unchanged when heap_current + (size
\* rounded up to a multiple of 8) would pass heap_end; otherwise it succeeds,
\* returns the pre-call heap_current and advances heap_current and
\* allocated_bytes by exactly the rounded-up size.
C4_AllocateContract ==
    (mm_ret.op = "allocate" /\ mm_ret.a # W(0)) =>
        LET rounded == RoundUp(mm_ret.a, 8) IN
        IF Lt(mm_ret.pre_he, Sum(mm_ret.pre_hc, rounded))
        THEN /\ mm_ret.res = "None"
             /\ heap_current = mm_ret.pre_hc
             /\ allocated_bytes = mm_ret.pre_ab
        ELSE /\ mm_ret.res = "Some"
             /\ mm_ret.val = mm_ret.pre_hc
             /\ heap_current = Sum(mm_ret.pre_hc, rounded)
             /\ allocated_bytes = Sum(mm_ret.pre_ab, rounded)

\* C5: across the manager's operations other than reset, heap_current never
\* decreases, and a range returned by one successful allocation is never
\* returned again by a later one.
C5_BumpPointerMonotonic ==
    /\ mm_ret.op \notin {"none", "reset"} => Le(mm_ret.pre_hc, heap_current)
    /\ (\A k \in 1..Len(hist) : hist[k].ev # "reset") =>
           \A i, j \in 1..Len(hist) :
               (i < j /\ IsAlloc(hist[i]) /\ IsAlloc(hist[j]))
               => Disjoint(hist[i], hist[j])

\* The first Available region, in insertion order, of at least `need` bytes.
RECURSIVE FirstAvailable(_, _, _)
FirstAvailable(rs, i, need) ==
    IF i > Len(rs) THEN <<"None", W(0)>>
    ELSE IF rs[i].region_type = "Available" /\ Le(need, rs[i].size)
    THEN <<"Some", rs[i].start>>
    ELSE FirstAvailable(rs, i + 1, need)

\* C6: find_kernel_location(size) returns 0x200000 whenever 0x200000 + size
\* <= heap_end; otherwise the start of the first Available region whose size
\* is at least size rounded up to a 4096-byte page, and none without one.
C6_FindKernelLocation ==
    mm_ret.op = "find_kernel_location" =>
        <<mm_ret.res, mm_ret.val>> =
            IF Le(Sum(KERNEL_LOAD_ADDR, mm_ret.a), heap_end)
            THEN <<"Some", KERNEL_LOAD_ADDR>>
            ELSE FirstAvailable(regions, 1, RoundUp(mm_ret.a, PAGE_SIZE))

----------------------------------------------------------------------------
(* Claims about the partition table reader                                  *)

\* Byte k of the raw 16-byte entry i of the sector, at offset 446 + 16 * i.
RawAt(i, k) == mbr[446 + 16 * i + k + 1]
Populated(i) == RawAt(i, 4) # 0 /\ (\E k \in 12..15 : RawAt(i, k) # 0)

\* The four bytes of a word, least significant first.
LeBytes(w) == <<w[2] % 256, w[2] \div 256, w[1] % 256, w[1] \div 256>>

\* C7: parse_partitions on a 512-byte sector makes slot i present iff raw
\* entry i has a non-zero type code and a non-zero sector count; the number
\* of present slots is the number of populated raw entries, every other slot
\* is empty, and a present slot carries its entry's bootable flag (byte 0 =
\* 0x80), type code, little-endian starting LBA and sector count.
C7_ParsePartitions ==
    mbr_pc = "probed" =>
        /\ \A i \in 0..3 :
             LET p == info.partitions[i] IN
             /\ p.some <=> Populated(i)
             /\ ~Populated(i) => p = NoEntry
             /\ Populated(i) =>
                  /\ p.bootable <=> (RawAt(i, 0) = 128)
                  /\ p.partition_type = RawAt(i, 4)
                  /\ LeBytes(p.starting_lba) = [k \in 1..4 |-> RawAt(i, 7 + k)]
                  /\ LeBytes(p.sectors) = [k \in 1..4 |-> RawAt(i, 11 + k)]
        /\ Cardinality({i \in 0..3 : info.partitions[i].some})
             = Cardinality({i \in 0..3 : Populated(i)})

\* A parsed table with gaps: slot 0 empty, slot 1 present with starting LBA
\* 0x04030201, slot 2 skipped although its raw entry is flagged bootable, slot
\* 3 present and bootable.
C7_Witness ==
    /\ mbr_pc = "probed"
    /\ ~info.partitions[0].some
    /\ info.partitions[1].some
    /\ info.partitions[1].starting_lba = <<1027, 513>>
    /\ RawAt(2, 0) = 128 /\ RawAt(2, 4) = 0
    /\ ~info.partitions[2].some
    /\ info.partitions[3].some /\ info.partitions[3].bootable

IsBootable(i) == info.partitions[i].some /\ info.partitions[i].bootable

\* C8: find_active_partition returns none iff no entry of the parsed table
\* has the bootable flag set; otherwise the bootable entry with the lowest
\* index, together with that index.
C8_FindActivePartition ==
    active.called =>
        /\ ~active.some <=> (\A i \in 0..3 : ~IsBootable(i))
        /\ active.some =>
             /\ active.idx \in 0..3
             /\ IsBootable(active.idx)
             /\ active.pe = info.partitions[active.idx]
             /\ \A j \in 0..3 : j < active.idx => ~IsBootable(j)

\* Slot 0 is present and not bootable, slots 2 and 3 are bootable, and slot 2
\* was returned.
C8_Witness ==
    /\ active.called /\ active.some /\ active.idx = 2
    /\ info.partitions[0].some /\ ~info.partitions[0].bootable
    /\ IsBootable(2) /\ IsBootable(3)

----------------------------------------------------------------------------
(* Claims about the ATA PIO driver                                          *)

\* Sectors asked for by the commands before the i-th.
RECURSIVE SectorsBefore(_, _)
SectorsBefore(cmds, i) ==
    IF i <= 1 THEN 0 ELSE cmds[i - 1].n + SectorsBefore(cmds, i - 1)

\* C9: read_sectors(lba, count, buffer) with 1 <= count <= 65535, a buffer of
\* at least count*512 bytes and a device that reports no error issues READ
\* commands of at most 255 sectors each whose counts sum to count, each
\* starting at lba plus the sectors already transferred, and fills
\* buffer[0 .. count*512) with the disk's sectors lba, lba+1, ... in order.
C9_ReadSectorsChunks ==
    (rs_pc = "ok" /\ rs_arg.count >= 1 /\ ~err_seen) =>
        /\ \A i \in 1..Len(commands) :
               /\ commands[i].n \in 1..MAX_CHUNK
               /\ commands[i].lba = Sum(rs_arg.lba, W(SectorsBefore(commands, i)))
        /\ SectorsBefore(commands, Len(commands) + 1) = rs_arg.count
        /\ \A k \in 1..rs_arg.count :
               /\ buffer[k].written
               /\ buffer[k].lba = Sum(rs_arg.lba, W(k - 1))
               /\ buffer[k].head =
                      [j \in 1..(2 * SampleWords) |->
                          DiskByte(Sum(rs_arg.lba, W(k - 1)), j - 1)]

\* C10: once a status-register read made during read_sectors has shown the
\* error bit or the device-fault bit, read_sectors has returned an error, and
\* no further data word is read and no further command is issued.
C10_ErrorStopsAtOnce ==
    /\ [](err_seen => rs_pc = "err")
    /\ [][err_seen => (words_read' = words_read /\ commands' = commands)]_vars

----------------------------------------------------------------------------
(* Claims about the EXT reader                                              *)

\* C11: for every 32-bit log_block_size, init_with_lba(base) succeeds exactly
\* when the superblock it read at LBA base+2 has magic 0xEF53, neither the
\* extents (0x40) nor the 64-bit (0x80) incompatible-feature bit, and a block
\* size 1024 << log_block_size of at most 4096; after a success the cached
\* block size is 1024, 2048 or 4096 and the cached sectors per block is the
\* block size divided by 512.
C11_InitWithLba ==
    (fs_ret.op = "init_with_lba" /\ fs_ret.read_ok) =>
        LET sb == fs_ret.sb
            log == sb.log_block_size
            fits == log[1] = 0 /\ log[2] <= 20 /\ 1024 * (2 ^ log[2]) <= 4096
        IN  /\ fs_ret.kind \in {"Ok", "Err"}
            /\ fs_ret.kind = "Ok" <=>
                   /\ sb.magic = 61267
                   /\ (sb.feature_incompat[2] \div 64) % 2 = 0
                   /\ (sb.feature_incompat[2] \div 128) % 2 = 0
                   /\ fits
            /\ fs_ret.kind = "Ok" =>
                   /\ fs.some
                   /\ fs.superblock = sb
                   /\ fs.block_size = 1024 * (2 ^ log[2])
                   /\ fs.block_size \in {1024, 2048, 4096}
                   /\ fs.sectors_per_block * 512 = fs.block_size

\* init_with_lba has accepted a superblock with log_block_size 2 and caches a
\* block size of 4096 bytes, 8 sectors.
C11_Witness ==
    /\ fs_ret.op = "init_with_lba" /\ fs_ret.kind = "Ok"
    /\ fs_ret.sb.log_block_size = W(2)
    /\ fs.block_size = 4096 /\ fs.sectors_per_block = 8

\* What is on the disk, for stating what read_file is to return.  A
\* well-formed image has one of the three superblocks and its descriptor and
\* inode table blocks; its root directory's first entry names "k" as inode 3.
WellFormed(img) ==
    /\ \E L \in 0..2 : img.sb = StdSb(L)
    /\ Len(img.blocks) >= 3
    /\ img.blocks[3].dir # <<>>
    /\ img.blocks[3].dir[1] = Named(0, 3, <<"k">>)
Inode3(img) == img.blocks[2].ino[2].inode
BlockSizeOf(img) == 1024 * (2 ^ img.sb.log_block_size[2])

\* The sector at which block number ptr (below 2^16) of the image starts.
BlockLba(img, ptr) == Sum(img.part, W(ptr[2] * (BlockSizeOf(img) \div 512)))

\* The first n data blocks of a file as pieces of its size bytes, the k-th
\* block being the one ptrs[k] names.
FileData(img, size, ptrs, n) ==
    [k \in 1..n |->
        [lba |-> BlockLba(img, ptrs[k]),
         len |-> IF size - (k - 1) * BlockSizeOf(img) < BlockSizeOf(img)
                 THEN size - (k - 1) * BlockSizeOf(img)
                 ELSE BlockSizeOf(img)]]

\* Blocks needed for size bytes.
BlocksFor(img, size) == (size + BlockSizeOf(img) - 1) \div BlockSizeOf(img)

\* read_file("/k") has returned, on a reader initialised for the image's
\* partition, and the device failed no read.
ReadOfK ==
    /\ fs_ret.op = "read_file" /\ fs_ret.kind # "running"
    /\ fs_ret.arg = << <<"/", "k">> >>
    /\ fs_ret.msg # "ATA"
    /\ fs.some /\ fs.partition_lba_base = image.part
    /\ WellFormed(image)
    /\ BitSet(Inode3(image).mode, EXT2_S_IFREG)

\* C12: for a regular file whose data uses only direct blocks (size below 12
\* block sizes, every block it needs present), read_file succeeds and returns
\* exactly the file's bytes, the FileBuffer's length being the inode's size.
C12_DirectRoundTrip ==
    LET ino == Inode3(image)
        size == Val(ino.size)
        n == BlocksFor(image, size)
    IN  (/\ ReadOfK
         /\ ino.size[1] < 16 /\ size < 12 * BlockSizeOf(image)
         /\ \A k \in 1..n : ino.block[k] # W(0) /\ ino.block[k][1] = 0)
        => /\ fs_ret.kind = "Ok"
           /\ rf_buf.size = size
           /\ rf_buf.data = FileData(image, size, ino.block, n)

\* The image's file "k" has exactly twelve direct blocks and one full
\* single-indirect block of pointers, all present.
FullSingleFile(img) ==
    LET ino == Inode3(img)
        bs == BlockSizeOf(img)
    IN  /\ Len(img.blocks) >= 4
        /\ ino.size = W((12 + bs \div 4) * bs)
        /\ \A k \in 1..12 : ino.block[k] # W(0) /\ ino.block[k][1] = 0
        /\ ino.block[13] # W(0) /\ ino.block[13][1] = 0
        /\ img.blocks[4].lba = BlockLba(img, ino.block[13])
        /\ img.blocks[4].list = <<>>
        /\ img.blocks[4].n = bs \div 4
        /\ img.blocks[4].from # W(0) /\ img.blocks[4].from[1] = 0

RECURSIVE PieceBytes(_, _)
PieceBytes(data, i) ==
    IF i > Len(data) THEN 0 ELSE data[i].len + PieceBytes(data, i + 1)

\* C14: read_file never returns truncated data: when the chains of the file's
\* inode end before inode.size bytes have been read it fails with an error
\* instead of returning a shorter buffer, and whenever it succeeds the buffer
\* holds inode.size bytes and has that length.
C14_NoTruncation ==
    /\ []((fs_ret.op = "read_file" /\ fs_ret.kind = "Ok") =>
             /\ rf_buf.size = Val(rf.inode.size)
             /\ PieceBytes(rf_buf.data, 1) = rf_buf.size)
    /\ [][(rf_pc # "idle" /\ rf_pc' = "idle" /\ rf.bytes_read < rf.file_size)
             => (fs_ret'.kind # "Ok" /\ rf_buf' = NewFileBuffer)]_vars

\* read_file("/k") has found the chains of a 14-block file ended after 13
\* blocks and has returned the error.
C14_Witness ==
    /\ ReadOfK
    /\ Inode3(image).size = W(14 * 1024)
    /\ Len(fs_reads) >= 13
    /\ fs_ret.kind = "Err"
    /\ fs_ret.msg = "Large files not fully supported (needs triple indirect)"
    /\ rf_buf = NewFileBuffer

\* The entries of a directory block, each starting where the record before it
\* ends, looked through for `name`: the inode number, 0 for none.  A record
\* shorter than a header or running past the block ends the block; a name
\* that does not fit its record ends the block (overrun_stops) or is passed
\* over.
RECURSIVE ScanEntries(_, _, _, _, _)
ScanEntries(entries, i, name, bs, overrun_stops) ==
    IF i > Len(entries) THEN 0
    ELSE LET e == entries[i] IN
         IF e.inode = W(0) \/ e.rec_len < 8 \/ e.off + e.rec_len > bs THEN 0
         ELSE IF 8 + e.name_len > e.rec_len \/ e.off + 8 + e.name_len > bs
         THEN IF overrun_stops THEN 0
              ELSE ScanEntries(entries, i + 1, name, bs, overrun_stops)
         ELSE IF e.name = name THEN e.inode[2]
         ELSE ScanEntries(entries, i + 1, name, bs, overrun_stops)

\* The image's root directory has two direct blocks (the image's blocks 3 and
\* 4) and one block behind its single-indirect pointer (block 6), the first
\* beginning with a damaged entry; the inode "k" names there.
DamagedRoot(img) ==
    /\ img.sb = StdSb(0)
    /\ Len(img.blocks) = 6
    /\ img.blocks[2].ino[1].inode = Dir(<<10, 11>>, 40)
    /\ img.blocks[3].dir # <<>> /\ img.blocks[3].dir[1] \in Damaged
LookupK(img, overrun_stops) ==
    LET in(b) == ScanEntries(img.blocks[b].dir, 1, <<"k">>, 1024, overrun_stops)
    IN  IF in(3) # 0 THEN in(3) ELSE IF in(4) # 0 THEN in(4) ELSE in(6)

\* read_file("/k") has returned on such an image, the device failing no read.
LookedUpK ==
    /\ fs_ret.op = "read_file" /\ fs_ret.kind # "running"
    /\ fs_ret.arg = << <<"/", "k">> >>
    /\ fs_ret.msg # "ATA"
    /\ fs.some /\ fs.partition_lba_base = image.part
    /\ DamagedRoot(image)

\* read_file("/k") gave the file "k" names by LookupK.
FoundAs(n) ==
    IF n = 0 THEN fs_ret.kind = "Err" /\ fs_ret.msg = "File not found"
    ELSE /\ fs_ret.kind = "Ok"
         /\ rf.inode = image.blocks[2].ino[n - 1].inode
         /\ rf_buf.size = n

\* C15: in directory lookup, when an entry's 8-byte header plus name length
\* exceeds its own record length or the block boundary, scanning of that
\* block stops (no later entry of the same block can be matched), while the
\* entries of the following direct blocks and of the single-indirect chain
\* are still scanned.
C15_OverrunStopsBlock ==
    LookedUpK => FoundAs(LookupK(image, TRUE))

\* C15 as it holds: a record length below 8 or running past the block
\* boundary ends the scan of that block; an entry whose header plus name
\* length exceeds its (valid) record length is passed over without being
\* compared and the scan goes on with the next entry of the same block; the
\* following direct blocks and the single-indirect chain are scanned in both
\* cases.
C15_OverrunSkipsEntry ==
    LookedUpK => FoundAs(LookupK(image, FALSE))

\* The first entry's name does not fit its record, "k" is the entry after it
\* in the same block, and read_file("/k") returned that file.
C15_Witness ==
    /\ LookedUpK
    /\ image.blocks[3].dir[1] = BadName
    /\ image.blocks[3].dir[2] = Named(16, 3, <<"k">>)
    /\ fs_ret.kind = "Ok" /\ rf_buf.size = 3

\* C20: for any disk content (any superblock init accepts, any group
\* descriptor, inode, directory block and pointer block bytes) read_file
\* returns a FileBuffer or an error value and never aborts: no division by
\* zero, no out-of-range index and no arithmetic-overflow trap is reachable.
C20_ReadFileNeverAborts ==
    fs_ret.op = "read_file" => fs_ret.kind \in {"running", "Ok", "Err"}

----------------------------------------------------------------------------
(* Claims about the kernel loader and the global memory manager             *)

\* load_kernel_from_path has read a file with a valid header and placed it,
\* and parse_and_load_elf has run on it (and returned, or ended the run).
LoadRan ==
    /\ ldr_ret.op = "load_kernel_from_path"
    /\ lk_pc \in {"reserve", "idle"}
    /\ lk_pc = "idle" => ldr_ret.kind # "running"
    /\ ldr_ret.msg \notin {"Failed to read kernel file",
                           "Cannot find suitable kernel load address"}
    /\ ldr_ret.arg[1].len >= 52
    /\ ldr_ret.arg[1].ident = <<127, 69, 76, 70>>
    /\ ldr_ret.arg[1].class = 1 /\ ldr_ret.arg[1].data = 1

\* h is an entry of the file's program header table, of type loadable, and
\* its file range lies inside the file.
LoadableInside(elf, h) ==
    /\ \E i \in 0..(elf.ph_count - 1) :
           W(h.base) = Sum(elf.ph_offset, W(i * elf.ph_size))
    /\ h.base + 32 <= elf.len
    /\ h.type = W(1)
    /\ Le(Sum(h.offset, h.file_size), W(elf.len))

\* The bytes [lo, hi) were last written by the write number w.
LastWrittenBy(w, lo, hi) ==
    \A v \in (w + 1)..Len(writes) :
        ~Intersects(writes[v].dest, Sum(writes[v].dest, writes[v].n), lo, hi)

\* C16: for every program header of type loadable whose file range lies
\* inside the image, after the load the memory at [vaddr, vaddr + file_size)
\* equals the image bytes [offset, offset + file_size) and, when mem_size >
\* file_size, the memory at [vaddr + file_size, vaddr + mem_size) is zero.
C16_SegmentsLoaded ==
    LoadRan =>
        \A k \in 1..Len(ldr_ret.arg[1].phs) :
            LET h == ldr_ret.arg[1].phs[k]
                mid == Sum(h.vaddr, h.file_size)
            IN  LoadableInside(ldr_ret.arg[1], h) =>
                  /\ h.file_size # W(0) =>
                       \E w \in 1..Len(writes) :
                           /\ writes[w] = Copy(h.vaddr, h.offset, h.file_size)
                           /\ LastWrittenBy(w, h.vaddr, mid)
                  /\ Lt(h.file_size, h.mem_size) =>
                       \E z \in 1..Len(writes) :
                           /\ writes[z] = Zero(mid, SubWrap(h.mem_size, h.file_size))
                           /\ LastWrittenBy(z, mid, Sum(h.vaddr, h.mem_size))

\* C17: the loader returns an error and writes no memory unless the image is
\* at least 52 bytes long, starts with the bytes 0x7F 'E' 'L' 'F' and has
\* class byte 1 and data byte 1; when these hold it returns the
\* little-endian 32-bit entry field at offset 24.
C17_HeaderChecks ==
    [][lk_pc = "load" =>
         IF /\ lk.elf.len >= 52
            /\ lk.elf.ident = <<127, 69, 76, 70>>
            /\ lk.elf.class = 1 /\ lk.elf.data = 1
         THEN lk_pc' = "reserve" /\ lk'.entry = lk.elf.entry
         ELSE /\ lk_pc' = "idle" /\ ldr_ret'.kind = "Err"
              /\ writes' = <<>>]_vars

\* The range of the current load is in the catalogue as the kernel's.
KernelReserved ==
    \E i \in 1..Len(regions) :
        regions[i] = Region(lk.load_addr, W(lk.elf.len), "Kernel")

\* C18: when a kernel is loaded from a path, the placement range obtained
\* from the memory manager is reserved before any segment byte is copied or
\* zero-filled; if the reservation fails, no memory has been written by the
\* loader.
C18_ReserveBeforeCopy ==
    /\ [][(writes' # writes /\ writes' # <<>>) => KernelReserved]_vars
    /\ []((/\ ldr_ret.op = "load_kernel_from_path"
           /\ ldr_ret.msg \in {"Memory manager not initialized",
                               "Cannot reserve region that conflicts with allocated memory"})
          => writes = <<>>)

\* C19: "not yet initialized" is a checked state: before any successful
\* filesystem init, read_file returns an error without issuing a disk read;
\* before memory init, find_kernel_address returns none and
\* reserve_for_kernel returns the error "Memory manager not initialized"
\* without changing any state.
C19_UninitializedIsChecked ==
    /\ [][(/\ ~fs.some /\ rf_pc = "idle"
           /\ fs_ret'.op = "read_file"
           /\ (fs_ret' # fs_ret \/ fs_reads' # fs_reads))
          => (/\ fs_ret'.kind = "Err"
              /\ fs_reads' = <<>>
              /\ rf_pc' = "idle"
              /\ fs' = fs)]_vars
    /\ [][(~manager_some /\ ops' # ops /\ ldr_ret'.op = "find_kernel_address")
          => (/\ ldr_ret'.kind = "None"
              /\ UNCHANGED <<manager_some, crashed, regions, heap_start,
                             heap_current, heap_end, allocated_bytes>>)]_vars
    /\ [][(~manager_some /\ ops' # ops /\ ldr_ret'.op = "reserve_for_kernel")
          => (/\ ldr_ret'.kind = "Err"
              /\ ldr_ret'.msg = "Memory manager not initialized"
              /\ UNCHANGED <<manager_some, crashed, regions, heap_start,
                             heap_current, heap_end, allocated_bytes>>)]_vars

\* Before either init, read_file("/k") has returned its error without a
\* disk read and reserve_for_kernel has returned its error.
C19_Witness ==
    /\ ~fs.some /\ ~manager_some
    /\ fs_ret.op = "read_file" /\ fs_ret.arg = << <<"/", "k">> >>
    /\ fs_ret.kind = "Err" /\ fs_ret.msg = "Filesystem not initialized"
    /\ fs_reads = <<>>
    /\ ldr_ret.op = "reserve_for_kernel" /\ ldr_ret.kind = "Err"
    /\ ldr_ret.msg = "Memory manager not initialized"
    /\ regions = <<>>

\* C26: in any reachable manager state, an address returned by
\* find_kernel_location(size) does not lie in the allocated memory
\* [heap_start, heap_current), and a reserve_region(address, size) issued
\* immediately afterwards succeeds.
C26_KernelLocationIsFree ==
    (mm_ret.op = "find_kernel_location" /\ mm_ret.res = "Some") =>
        /\ ~(Le(heap_start, mm_ret.val) /\ Lt(mm_ret.val, heap_current))
        /\ reserve_region_outcome(mm_ret.val, mm_ret.a).kind = "Ok"

\* C27: every byte the loader writes while it loads a kernel from a path,
\* by a segment copy or a zero fill, lies inside the range [load address,
\* load address + file length) obtained from find_kernel_address.
C27_WritesInsidePlacement ==
    [][(writes' # writes /\ writes' # <<>>) =>
         \A w \in 1..Len(writes') :
             writes'[w].n # W(0) =>
                 /\ Le(lk.load_addr, writes'[w].dest)
                 /\ Le(Sum(writes'[w].dest, writes'[w].n),
                       Sum(lk.load_addr, W(lk.elf.len)))]_vars

\* C29: with address arithmetic modulo 2^32 (a build without overflow
\* checks), every segment copy takes its source bytes from inside the image
\* data[0 .. len), whatever the header table offset and the segment's file
\* offset and file size are.
C29_SourceInsideImage ==
    (~overflow_checks /\ ldr_ret.op = "load_kernel_from_path") =>
        \A w \in 1..Len(writes) :
            (writes[w].op = "memcpy" /\ writes[w].n # W(0)) =>
                Le(Sum(writes[w].src, writes[w].n), W(ldr_ret.arg[1].len))

----------------------------------------------------------------------------
(* Claims about inode lookup, chains and the cached file system             *)

\* A word below 2^31 as a number.
Num(w) == w[1] * Half + w[2]

\* The sector a block number of the cached file system starts at.
SectorOf(b) == AddWrap(fs.partition_lba_base, MulWrap(b, fs.sectors_per_block))

\* The record size of an inode: 128 bytes unless a superblock of revision 1
\* or more declares a size of at least 128, at most one block, and a
\* multiple of 4.
RecordSize(sb) ==
    IF /\ sb.rev_level # W(0)
       /\ sb.inode_size >= 128 /\ sb.inode_size <= fs.block_size
       /\ sb.inode_size % 4 = 0
    THEN sb.inode_size ELSE 128

\* Where inode n of the cached file system is, in exact arithmetic: its
\* group and local index, the block and byte offset of the group's
\* descriptor, and the block number (as a sum that may pass 2^32) and byte
\* offset of its record.
PlaceOf(n) ==
    LET sb == fs.superblock
        group == (Num(n) - 1) \div Num(sb.inodes_per_group)
        local == (Num(n) - 1) % Num(sb.inodes_per_group)
        per_desc == fs.block_size \div 32
        per_block == fs.block_size \div RecordSize(sb)
        gdt_block == Sum(sb.first_data_block, W(1 + group \div per_desc))
        table == InodeTableAt(BlockAt(image, SectorOf(gdt_block)),
                              (group % per_desc) * 32)
    IN  [group |-> group, local |-> local, gdt_block |-> gdt_block,
         block |-> Sum(table, W(local \div per_block)),
         offset |-> (local % per_block) * RecordSize(sb)]

\* The block number b is one of 32 bits whose first sector number is one too.
IsBlock(b) == b[1] < Half /\ ~MulOverflows(b, fs.sectors_per_block)

\* C21: get_inode(n) for n >= 1 uses group (n - 1) / inodes_per_group and
\* local index (n - 1) mod inodes_per_group, reads that group's descriptor
\* from the descriptor table that starts at block first_data_block + 1, and
\* reads the inode record at block inode_table + local / inodes_per_block,
\* byte offset (local mod inodes_per_block) * inode_size.  Stated wherever
\* the divisor is not zero and the block numbers named are block numbers;
\* the device may fail a read.
C21_InodePlace ==
    (/\ fs_ret.op = "get_inode" /\ fs.some
     /\ fs_ret.arg[1] # W(0)
     /\ fs.superblock.inodes_per_group # W(0)
     /\ IsBlock(PlaceOf(fs_ret.arg[1]).gdt_block))
    => LET at == PlaceOf(fs_ret.arg[1])
           descriptor == [lba |-> SectorOf(at.gdt_block),
                          count |-> fs.sectors_per_block]
           record == [lba |-> SectorOf(at.block), count |-> fs.sectors_per_block]
       IN  /\ fs_reads # <<>> /\ fs_reads[1] = descriptor
           /\ \/ fs_ret.kind = "Err" /\ fs_ret.msg = "ATA" /\ Len(fs_reads) = 1
              \/ ~IsBlock(at.block)
              \/ /\ fs_reads = <<descriptor, record>>
                 /\ \/ fs_ret.kind = "Err" /\ fs_ret.msg = "ATA"
                    \/ /\ fs_ret.kind = "Ok"
                       /\ rf.inode = InodeAt(BlockAt(image, record.lba), at.offset)

\* The claim's scenario: 4096-byte blocks, 8192 inodes per group, first data
\* block 0; get_inode(2) has read the descriptor of group 0 in block 1 and
\* the record of local index 1 (the inode of size 2) in the table's first
\* block; and get_inode(8193), in some other state, the record of group 1.
C21_Witness ==
    /\ fs_ret.op = "get_inode" /\ fs_ret.kind = "Ok"
    /\ fs.block_size = 4096
    /\ fs.superblock.inodes_per_group = W(8192)
    /\ fs.superblock.first_data_block = W(0)
    /\ fs_ret.arg[1] = W(2)
    /\ PlaceOf(W(2)).group = 0 /\ PlaceOf(W(2)).local = 1
    /\ fs_reads = <<[lba |-> SectorOf(W(1)), count |-> 8],
                    [lba |-> SectorOf(W(40)), count |-> 8]>>
    /\ rf.inode.size = W(2)

\* The pointer lists of an image: the twelve direct pointers of each inode
\* record, and the pointers each pointer block lists.
PointerLists(img) ==
    UNION {{[k \in 1..12 |-> img.blocks[b].ino[m].inode.block[k]]
              : m \in 1..Len(img.blocks[b].ino)} \cup {img.blocks[b].list}
           : b \in 1..Len(img.blocks)}

\* The sectors read_file has read so far.
SectorsRead == {fs_reads[k].lba : k \in 1..Len(fs_reads)}

\* C23: in directory lookup and in file reading a zero block pointer ends
\* its chain: after a zero pointer among the direct pointers, in a
\* single-indirect block or in a double-indirect block, no block referenced
\* by a later pointer of the same list is read.  (On the images, a block
\* named after a zero pointer is named by no other pointer.)
C23_ZeroEndsChain ==
    (fs_ret.op = "read_file" /\ fs.some) =>
        \A list \in PointerLists(image) :
            \A i \in 1..Len(list) : \A j \in (i + 1)..Len(list) :
                (list[i] = W(0) /\ list[j] # W(0)) =>
                    SectorOf(list[j]) \notin SectorsRead

\* C28: a failing init_with_lba (disk read error, bad magic, unsupported
\* feature bits or block size) leaves the cached file system state
\* unchanged: superblock, block size, sectors per block and partition base.
C28_FailedInitKeepsState ==
    [][(fs_ret'.op = "init_with_lba" /\ fs_ret'.kind = "Err") => fs' = fs]_vars

\* The part of the path before its last component names the regular file
\* "k" of a well-formed image: "/k/k" and "/k/k/k".
ThroughRegularFile ==
    /\ fs_ret.op = "read_file" /\ fs_ret.kind # "running"
    /\ fs_ret.arg[1] \in {<<"/", "k", "/", "k">>, <<"/", "k", "/", "k", "/", "k">>}
    /\ fs_ret.msg # "ATA"
    /\ fs.some /\ fs.partition_lba_base = image.part
    /\ WellFormed(image)
    /\ ~BitSet(Inode3(image).mode, EXT2_S_IFDIR)

\* C30: read_file scans an inode's data blocks as directory entries only if
\* that inode carries the directory-type bit: for every path in which a
\* component other than the last resolves to a non-directory inode,
\* read_file fails with "Not a directory".
C30_NonDirectoryNotScanned ==
    ThroughRegularFile =>
        /\ fs_ret.kind = "Err" /\ fs_ret.msg = "Not a directory"
        /\ \A k \in 1..12 :
               Inode3(image).block[k] # W(0) =>
                   SectorOf(Inode3(image).block[k]) \notin SectorsRead

----------------------------------------------------------------------------
(* Claims about the order and the end of read_sectors                       *)

\* C24: in read_sectors the READ command of a chunk is issued only after the
\* drive-select, sector-count and three LBA registers were written for that
\* chunk, and the 256 data words of each sector are read only after, for
\* that sector, a status read showed busy clear followed by a status read
\* showing data-request set with busy clear; exactly 256 words are read per
\* sector.
C24_CommandAndDataOrder ==
    /\ [][commands' # commands =>
            rs_seen.written = {"sel", "cnt", "lba0", "lba1", "lba2"}]_vars
    /\ [][words_read' # words_read =>
            /\ rs_seen.clear /\ rs_seen.later
            /\ BitSet(rs_seen.last[1], ATA_SR_DRQ)
            /\ ~BitSet(rs_seen.last[1], ATA_SR_BSY)
            /\ ~rs_seen'.clear
            /\ words_read' = words_read + 256
            /\ rs_i' = rs_i + 1]_vars
    /\ [](rs_pc = "ok" => words_read = rs_arg.count * 256)

\* A read of 257 sectors has returned Ok: two commands, 257 * 256 words.
C24_Witness ==
    /\ rs_pc = "ok" /\ rs_arg.count = 257
    /\ Len(commands) = 2
    /\ words_read = 257 * 256

\* C25: the polling loops have no timeout: while the device shows busy, or
\* shows no data request, without an error or fault bit, read_sectors stays
\* in its polling loop; if the device in the end answers every poll,
\* read_sectors terminates, having read at most count * 256 data words.
C25_NoTimeoutButTerminates ==
    /\ [][(rs_pc = "bsy" /\ rs_seen'.last # <<>>
           /\ BitSet(rs_seen'.last[1], ATA_SR_BSY)
           /\ ~HasError(rs_seen'.last[1])) => rs_pc' = "bsy"]_vars
    /\ [][(rs_pc = "drq" /\ rs_seen'.last # <<>>
           /\ ~HasError(rs_seen'.last[1])
           /\ (~BitSet(rs_seen'.last[1], ATA_SR_DRQ)
               \/ BitSet(rs_seen'.last[1], ATA_SR_BSY))) => rs_pc' = "drq"]_vars
    /\ (rs_pc # "idle") ~> (rs_pc \in {"ok", "err"})
    /\ [](words_read <= rs_arg.count * 256)

\* The second sector's wait has read a busy status and goes on polling.
C25_Witness ==
    /\ rs_pc = "bsy" /\ rs_seen.last = <<128>>
    /\ words_read = 256

----------------------------------------------------------------------------
(* Claims about the boot sequence                                           *)

\* Among the calls before the i-th there is a successful call of op.
Succeeded(op, i) == \E j \in 1..(i - 1) : boot.log[j] = Called(op, TRUE)

\* C22: the boot sequence runs the components in order: the disk driver is
\* initialized, then the filesystem reader and the memory manager, and only
\* then the kernel lookup; no read_file call and no find_kernel_address call
\* happens before the corresponding init succeeded, and control jumps to the
\* kernel entry only after find_and_load_kernel returned success.
C22_BootOrder ==
    /\ \A i \in 1..Len(boot.log) :
         /\ boot.log[i].op \in {"fs::ext::init_with_lba", "memory::init"}
                => Succeeded("disk::init", i)
         /\ boot.log[i].op = "read_file"
                => Succeeded("disk::init", i) /\ Succeeded("fs::ext::init_with_lba", i)
         /\ boot.log[i].op = "find_kernel_address"
                => Succeeded("memory::init", i)
    /\ boot.pc = "jumped" =>
         boot.log[Len(boot.log)] = Called("find_and_load_kernel", TRUE)

============================================================================
